---- MODULE Spec2Model ----
(***************************************************************************)
(* Model of ticktick-ai-demo.                                              *)
(*                                                                         *)
(* Spec: the plan parsing of AIProjectManager._generate_task_plan_with_pm  *)
(* (main.py) and of LLMClient.generate_task_plan (llm_client.py), the      *)
(* planner prompt of PromptManager, DidaClient.create_task and the         *)
(* interactive flow of AIProjectManager.run_planner under the menu loop of *)
(* start().                                                                *)
(*                                                                         *)
(* SpecLog: DailyLogManager (main.py) and its users: the strategic war     *)
(* room, the daily review, run_auditor, the chat-bridge plugin and         *)
(* process_wechat_message as it calls it, and the stream and review        *)
(* prompts of PromptManager.                                               *)
(*                                                                         *)
(* SpecWriters: two calls of DailyLogManager.add_log_entry whose steps     *)
(* interleave.                                                             *)
(*                                                                         *)
(* SpecDash: the read adapters and create_task of DidaClient, called       *)
(* directly and by run_dashboard.                                          *)
(*                                                                         *)
(* SpecRender: the render operations of PromptManager, called repeatedly.  *)
(*                                                                         *)
(* Strings are sequences of one-character strings, so that str.strip(),    *)
(* int(str), str.replace() and slices are computed and not assumed.  A     *)
(* JSON scalar is a record [k, n, s]: k its kind, n its number (for        *)
(* k = "int"), s its text (for k = "str").  k = "absent" stands for a key  *)
(* that the object lacks.                                                  *)
(***************************************************************************)
EXTENDS Integers, Sequences, FiniteSets, TLC

\* ------------------------------------------------------------------------
\* Bounds of the model
\* ------------------------------------------------------------------------

\* longest `tasks` array of a model reply
MaxTasks == 2

\* most log entries written in a behaviour
MaxLog == 3

\* most midnights passed in a behaviour
MaxDay == 1

\* most tasks in the inbox
MaxInbox == 11

\* most projects the task service lists
MaxProjects == 2

\* most render calls a direct caller of PromptManager makes
MaxCalls == 2

\* ------------------------------------------------------------------------
\* Python built-ins used by the code
\* ------------------------------------------------------------------------

Whitespace == {" "}

DigitChars == <<"0", "1", "2", "3", "4", "5", "6", "7", "8", "9">>

RECURSIVE LStrip(_)
LStrip(s) ==
    IF s # <<>> /\ Head(s) \in Whitespace THEN LStrip(Tail(s)) ELSE s

RECURSIVE RStrip(_)
RStrip(s) ==
    IF s # <<>> /\ s[Len(s)] \in Whitespace
    THEN RStrip(SubSeq(s, 1, Len(s) - 1))
    ELSE s

\* str.strip()
PyStrip(s) == RStrip(LStrip(s))

\* the value of a decimal digit character, -1 when it is none
DigitValue(c) ==
    IF \E d \in 1..10 : DigitChars[d] = c
    THEN (CHOOSE d \in 1..10 : DigitChars[d] = c) - 1
    ELSE -1

RECURSIVE DigitsValue(_, _)
\* the number written by the digit string s, acc the value read so far;
\* -1 when s holds a character that is no digit
DigitsValue(s, acc) ==
    IF s = <<>> THEN acc
    ELSE IF DigitValue(Head(s)) < 0 THEN -1
    ELSE DigitsValue(Tail(s), acc * 10 + DigitValue(Head(s)))

\* str(n) for a small integer n
PyStrInt(n) ==
    IF n < 0 THEN <<"-", DigitChars[(0 - n) + 1]>>
    ELSE <<DigitChars[n + 1]>>

\* bool(v): the truth value of a JSON scalar
Truthy(v) ==
    CASE v.k = "str" -> v.s # <<>>
      [] v.k = "int" -> v.n # 0
      [] OTHER -> FALSE

\* str(v)
PyStr(v) ==
    CASE v.k = "str" -> v.s
      [] v.k = "int" -> PyStrInt(v.n)
      [] OTHER -> <<"N", "o", "n", "e">>

\* int(v): [ok |-> TRUE, n |-> value], or ok = FALSE when int() raises
\* (ValueError for a string that is no integer literal, TypeError for None)
PyInt(v) ==
    CASE v.k = "int" -> [ok |-> TRUE, n |-> v.n]
      [] v.k = "str" ->
            LET t == PyStrip(v.s)
                neg == t # <<>> /\ Head(t) = "-"
                signed == t # <<>> /\ Head(t) \in {"-", "+"}
                digits == IF signed THEN Tail(t) ELSE t
                val == DigitsValue(digits, 0)
            IN  IF digits = <<>> \/ val < 0
                THEN [ok |-> FALSE, n |-> 0]
                ELSE [ok |-> TRUE, n |-> IF neg THEN 0 - val ELSE val]
      [] OTHER -> [ok |-> FALSE, n |-> 0]

\* ------------------------------------------------------------------------
\* Model replies: the text returned by the chat completion, given by what
\* json.loads makes of it
\* ------------------------------------------------------------------------

Absent == [k |-> "absent", n |-> 0, s |-> <<>>]
Null == [k |-> "null", n |-> 0, s |-> <<>>]
JInt(n) == [k |-> "int", n |-> n, s |-> <<>>]
JStr(s) == [k |-> "str", n |-> 0, s |-> s]

\* values of the key `title` in the replies explored
TitleValues == {Absent, JStr(<<>>), JStr(<<" ">>), JStr(<<" ", "b">>), JInt(7)}

\* values of the key `content`
ContentValues == {Absent, JStr(<<"c", " ">>)}

\* values of the key `day_offset`
DayOffsetValues == {Absent, JInt(-1), JInt(1), JStr(<<"x">>), Null}

\* the elements of a `tasks` array: objects, and values that are no object
ObjectElements ==
    [k : {"obj"}, title : TitleValues, content : ContentValues,
     day_offset : DayOffsetValues]

NonObjectElements ==
    [k : {"str"}, title : {Absent}, content : {Absent},
     day_offset : {Absent}]

Elements == ObjectElements \cup NonObjectElements

TaskArrays == UNION {[1..n -> Elements] : n \in 0..MaxTasks}

\* top: what json.loads returns ("invalid": it raises json.JSONDecodeError);
\* tasks_k: the kind of data["tasks"] ("absent": the object has no such key)
Replies ==
    [top : {"invalid", "list", "str"}, tasks_k : {"absent"}, tasks : {<<>>}]
    \cup [top : {"obj"}, tasks_k : {"absent", "null", "str", "obj"},
          tasks : {<<>>}]
    \cup [top : {"obj"}, tasks_k : {"list"}, tasks : TaskArrays]

NoReply == [top |-> "none", tasks_k |-> "absent", tasks |-> <<>>]

\* the result of a planning call: a returned list or a raised exception
NoResult == [status |-> "none", tasks |-> <<>>, warned |-> <<>>]

\* ------------------------------------------------------------------------
\* Plan parsing of AIProjectManager._generate_task_plan_with_pm (main.py)
\* ------------------------------------------------------------------------

\* dict.get(key, default) on a value v that is Absent when the key is missing
DictGet(v, default) == IF v.k = "absent" THEN default ELSE v

\* PMSkipsTask without the check of the title
PMSkipsTask_TitleUnchecked(task) == task.k # "obj"

\* the element is passed over with a warning: it is no dict, or
\* `"title" not in task or not task["title"]`
PMSkipsTask(task) ==
    \/ task.k # "obj"
    \/ task.title.k = "absent"
    \/ ~Truthy(task.title)

\* PMValidatedTask with 1 as the default of day_offset
PMValidatedTask_DefaultOffsetOne(task) ==
    LET d == PyInt(DictGet(task.day_offset, JInt(1)))
    IN  [ok |-> d.ok,
         task |-> [title |-> PyStrip(PyStr(DictGet(task.title, JStr(<<>>)))),
                   content |-> PyStrip(PyStr(DictGet(task.content, JStr(<<>>)))),
                   day_offset |-> d.n]]

\* the validated_task dict built for an element; ok = FALSE when int() raises
PMValidatedTask(task) ==
    LET d == PyInt(DictGet(task.day_offset, JInt(0)))
    IN  [ok |-> d.ok,
         task |-> [title |-> PyStrip(PyStr(DictGet(task.title, JStr(<<>>)))),
                   content |-> PyStrip(PyStr(DictGet(task.content, JStr(<<>>)))),
                   day_offset |-> d.n]]

RECURSIVE PMValidateTasks(_, _, _, _)
\* the loop over enumerate(tasks), from position i on (1-based here),
\* validated_tasks and the warnings logged so far being given
PMValidateTasks(tasks, i, validated_tasks, warned) ==
    IF i > Len(tasks)
    THEN [status |-> "ok", tasks |-> validated_tasks, warned |-> warned]
    ELSE IF PMSkipsTask(tasks[i])
    THEN PMValidateTasks(tasks, i + 1, validated_tasks, Append(warned, i - 1))
    ELSE IF ~PMValidatedTask(tasks[i]).ok
    THEN [status |-> "RuntimeError", tasks |-> <<>>, warned |-> warned]
    ELSE PMValidateTasks(tasks, i + 1,
                         Append(validated_tasks, PMValidatedTask(tasks[i]).task),
                         warned)

\* PMParsePlan without the check that `tasks` is a list
PMParsePlan_AnyTasksValue(content) ==
    IF content.top # "obj"
    THEN [status |-> "RuntimeError", tasks |-> <<>>, warned |-> <<>>]
    ELSE PMValidateTasks(content.tasks, 1, <<>>, <<>>)

\* json.loads and everything after it, inside `try ... except Exception`,
\* which turns every exception into RuntimeError
PMParsePlan(content) ==
    IF content.top # "obj"
    THEN [status |-> "RuntimeError", tasks |-> <<>>, warned |-> <<>>]
    ELSE IF content.tasks_k \notin {"absent", "list"}
    THEN [status |-> "RuntimeError", tasks |-> <<>>, warned |-> <<>>]
    ELSE PMValidateTasks(content.tasks, 1, <<>>, <<>>)

\* ------------------------------------------------------------------------
\* Plan parsing of LLMClient.generate_task_plan (llm_client.py)
\* ------------------------------------------------------------------------

LLMSkipsTask(task) ==
    \/ task.k # "obj"
    \/ task.title.k = "absent"
    \/ ~Truthy(task.title)

\* LLMValidatedTask without strip() of the title
LLMValidatedTask_Untrimmed(task) ==
    LET d == PyInt(DictGet(task.day_offset, JInt(0)))
    IN  [ok |-> d.ok,
         task |-> [title |-> PyStr(DictGet(task.title, JStr(<<>>))),
                   content |-> PyStrip(PyStr(DictGet(task.content, JStr(<<>>)))),
                   day_offset |-> d.n]]

LLMValidatedTask(task) ==
    LET d == PyInt(DictGet(task.day_offset, JInt(0)))
    IN  [ok |-> d.ok,
         task |-> [title |-> PyStrip(PyStr(DictGet(task.title, JStr(<<>>)))),
                   content |-> PyStrip(PyStr(DictGet(task.content, JStr(<<>>)))),
                   day_offset |-> d.n]]

RECURSIVE LLMValidateTasks(_, _, _, _)
\* as PMValidateTasks; an empty result logs one more warning ("No valid
\* tasks generated"), recorded as position -1
LLMValidateTasks(tasks, i, validated_tasks, warned) ==
    IF i > Len(tasks)
    THEN [status |-> "ok", tasks |-> validated_tasks,
          warned |-> IF validated_tasks = <<>>
                     THEN Append(warned, -1) ELSE warned]
    ELSE IF LLMSkipsTask(tasks[i])
    THEN LLMValidateTasks(tasks, i + 1, validated_tasks, Append(warned, i - 1))
    ELSE IF ~LLMValidatedTask(tasks[i]).ok
    THEN [status |-> "RuntimeError", tasks |-> <<>>, warned |-> warned]
    ELSE LLMValidateTasks(tasks, i + 1,
                          Append(validated_tasks, LLMValidatedTask(tasks[i]).task),
                          warned)

\* json.loads and everything after it: json.JSONDecodeError is re-raised as
\* it is, every other exception becomes RuntimeError
LLMParsePlan(content) ==
    IF content.top = "invalid"
    THEN [status |-> "JSONDecodeError", tasks |-> <<>>, warned |-> <<>>]
    ELSE IF content.top # "obj"
    THEN [status |-> "JSONDecodeError", tasks |-> <<>>, warned |-> <<>>]
    ELSE IF content.tasks_k \notin {"absent", "list"}
    THEN [status |-> "JSONDecodeError", tasks |-> <<>>, warned |-> <<>>]
    ELSE LLMValidateTasks(content.tasks, 1, <<>>, <<>>)

\* ------------------------------------------------------------------------
\* PromptManager.render_planner_prompt and DidaClient.create_task
\* ------------------------------------------------------------------------

\* the f-string of render_planner_prompt, given by its template and the two
\* values spliced into it
RenderPlannerPrompt(g, context) ==
    [template |-> "planner", goal |-> g, context |-> context]

NoPrompt == [template |-> "none", goal |-> <<>>, context |-> ""]

\* the context argument run_planner passes
PlannerContext == "User wants a gradual, step-by-step approach"

\* what create_task does before any HTTP request: "ValueError" for a title
\* that is blank after strip(), "None" when no project id is configured,
\* "post" when it goes on to POST /task
CreateTaskCheck(title, inbox) ==
    IF PyStrip(title) = <<>> THEN "ValueError"
    ELSE IF inbox = "" THEN "None"
    ELSE "post"

\* TaskPayload without the parentId
TaskPayload_NoParent(title, content, parent, due_day) ==
    [title |-> PyStrip(title), content |-> PyStrip(content),
     parentId |-> "", dueDate |-> due_day]

\* the JSON payload of POST /task; parentId = "" stands for a payload
\* without that key (`if parent_id:`), dueDate is the day relative to today
TaskPayload(title, content, parent, due_day) ==
    [title |-> PyStrip(title), content |-> PyStrip(content),
     parentId |-> parent, dueDate |-> due_day]

\* the arguments of the parent task's create_task call
ParentTitle(g) == <<"[Project] ">> \o g
ParentContent == <<"Project task group automatically planned by AI">>

\* NoUsablePlan that lets the empty plan through
NoUsablePlan_Never(tasks) == FALSE

\* `if not tasks:` in run_planner
NoUsablePlan(tasks) == tasks = <<>>

\* str.lower()
PyLower(s) == [i \in 1..Len(s) |-> IF s[i] = "Y" THEN "y"
                                  ELSE IF s[i] = "N" THEN "n" ELSE s[i]]

\* `confirm == 'y'`, confirm being input(...).lower().strip()
Confirmed_Always(answer) == TRUE

Confirmed(answer) == PyStrip(PyLower(answer)) = <<"y">>

\* ------------------------------------------------------------------------
\* Text of the stream log: str methods and literals
\* ------------------------------------------------------------------------
\* A character outside ASCII is written by its code point ("U+4ECA").

\* the characters of s
Chars(s) == {s[i] : i \in 1..Len(s)}

\* s[:n]
Prefix(s, n) == SubSeq(s, 1, IF n < Len(s) THEN n ELSE Len(s))

\* s[n:]
DropFirst(s, n) == IF n >= Len(s) THEN <<>> ELSE SubSeq(s, n + 1, Len(s))

\* s[-n:] of a list, n > 0
LastItems(s, n) == IF n >= Len(s) THEN s ELSE SubSeq(s, Len(s) - n + 1, Len(s))

\* s.startswith(p)
StartsWith(s, p) == Len(p) <= Len(s) /\ SubSeq(s, 1, Len(p)) = p

RECURSIVE Contains(_, _)
\* `p in s`
Contains(s, p) ==
    IF Len(s) < Len(p) THEN FALSE
    ELSE StartsWith(s, p) \/ Contains(Tail(s), p)

RECURSIVE Remove(_, _)
\* s.replace(old, ""), old not empty
Remove(s, old) ==
    IF Len(s) < Len(old) THEN s
    ELSE IF StartsWith(s, old) THEN Remove(DropFirst(s, Len(old)), old)
    ELSE <<Head(s)>> \o Remove(Tail(s), old)

RECURSIVE TakeUntil(_, _)
\* the part of s before the first c
TakeUntil(s, c) ==
    IF s = <<>> \/ Head(s) = c THEN <<>>
    ELSE <<Head(s)>> \o TakeUntil(Tail(s), c)

RECURSIVE DropThrough(_, _)
\* the part of s after the first c
DropThrough(s, c) ==
    IF s = <<>> THEN <<>>
    ELSE IF Head(s) = c THEN Tail(s)
    ELSE DropThrough(Tail(s), c)

\* s.split(c)[1], c in s
SplitSecond(s, c) == TakeUntil(DropThrough(s, c), c)

RECURSIVE Join(_, _)
\* sep.join(lines)
Join(lines, sep) ==
    IF lines = <<>> THEN <<>>
    ELSE IF Len(lines) = 1 THEN lines[1]
    ELSE lines[1] \o sep \o Join(Tail(lines), sep)

\* f"{s:10}": s padded with blanks on the right to n characters
RECURSIVE PadRight(_, _)
PadRight(s, n) == IF Len(s) >= n THEN s ELSE PadRight(s \o <<" ">>, n)

\* f"{i:2}" and "%02d" for i in 0..9
PadNumber(i) == <<" ">> \o PyStrInt(i)
TwoDigits(i) == <<"0">> \o PyStrInt(i)

\* "[Audit Note]"
AuditMarker ==
    <<"[", "A", "u", "d", "i", "t", " ", "N", "o", "t", "e", "]">>

\* the phrase that follows the marker in a flagged reply
AuditBoilerplate ==
    <<"U+8BB0", "U+5F55", "U+8D1F", "U+9762", "U+504F", "U+5DEE",
      "U+FF0C", "U+5F85", "U+603B", "U+7ED3", "U+590D", "U+76D8",
      "U+539F", "U+56E0", "U+FF08", "U+65B9", "U+6CD5", "U+8BBA", " ",
      "v", "s", " ", "U+8F93", "U+5165", "U+91CF", "U+FF09", "U+3002">>

\* the placeholder of the log formatters ("no records yet today")
NoLogsText ==
    <<"U+4ECA", "U+5929", "U+5C1A", "U+65E0", "U+8BB0", "U+5F55">>

\* the placeholder of the stream prompt ("no recent records")
NoRecentLogsText ==
    <<"U+65E0", "U+8FD1", "U+671F", "U+8BB0", "U+5F55">>

\* f"... {task_name}" of a task_completion entry, and the text looked for
\* in its content by the daily review
DoneLogMarker ==
    <<"U+5B8C", "U+6210", "U+4EFB", "U+52A1", ":">>
DoneLogPrefix == DoneLogMarker \o <<" ">>

\* the commands of the war room
DoneCommand == <<"/", "d", "o", "n", "e">>
ReviewCommands ==
    {<<"/", "r", "e", "v", "i", "e", "w">>,
     <<"/", "U+603B", "U+7ED3", "U+4ECA", "U+5929">>}
QuitCommands == {<<"/", "q", "u", "i", "t">>, <<"/", "e", "x", "i", "t">>}

\* "\n* **<daily records>**:\n  "
DailyLogsHeader ==
    <<"\n", "*", " ", "*", "*", "U+5168", "U+5929", "U+8BB0", "U+5F55",
      "*", "*", ":", "\n", " ", " ">>

\* ------------------------------------------------------------------------
\* DailyLogManager (main.py): one JSON file per calendar day
\* ------------------------------------------------------------------------

\* datetime.now().isoformat() on day `day`, `sec` seconds after 09:00:00
IsoFormat(day, sec) ==
    <<"2", "0", "2", "4", "-", "0", "1", "-">> \o TwoDigits(day + 1)
    \o <<"T", "0", "9", ":", "0", "0", ":">> \o TwoDigits(sec)
    \o <<".", "5", "0", "0", "0", "0", "0">>

\* the entry that add_log_entry builds; no caller passes ai_response, so
\* the key is left out (read back as "" by the formatters)
LogEntry(log_type, content, day, sec) ==
    [type |-> log_type, content |-> content, ai_response |-> <<>>,
     timestamp |-> IsoFormat(day, sec)]

\* get_today_logs: the list in today's file, [] without the file
GetTodayLogs(fs, day) == fs[day]

\* add_log_entry: today's list is read, the entry is put at its end and the
\* whole list is written back
AddLogEntry_Prepend(fs, day, sec, log_type, content) ==
    [fs EXCEPT ![day] =
        <<LogEntry(log_type, content, day, sec)>> \o GetTodayLogs(fs, day)]

AddLogEntry(fs, day, sec, log_type, content) ==
    [fs EXCEPT ![day] =
        Append(GetTodayLogs(fs, day), LogEntry(log_type, content, day, sec))]

\* clear_today_logs: today's file is removed
ClearTodayLogs(fs, day) == [fs EXCEPT ![day] = <<>>]

\* log_type.upper()
TypeUpper(log_type) ==
    CASE log_type = "user_input" ->
            <<"U", "S", "E", "R", "_", "I", "N", "P", "U", "T">>
      [] log_type = "ai_response" ->
            <<"A", "I", "_", "R", "E", "S", "P", "O", "N", "S", "E">>
      [] log_type = "task_completion" ->
            <<"T", "A", "S", "K", "_", "C", "O", "M", "P", "L", "E", "T",
              "I", "O", "N">>

\* one line of format_logs_for_prompt
PromptLogLine(log) ==
    LET timestamp == IF "T" \in Chars(log.timestamp)
                     THEN Prefix(SplitSecond(log.timestamp, "T"), 5)
                     ELSE log.timestamp
        entry == <<"[">> \o timestamp \o <<"]", " ">> \o log.content
    IN  IF log.ai_response # <<>>
        THEN entry \o <<" ", "-", ">", " ">> \o Prefix(log.ai_response, 50)
                   \o <<".", ".", ".">>
        ELSE entry

\* format_logs_for_prompt(limit) on today's list `logs`
FormatLogsForPrompt_NoPlaceholder(logs, limit) ==
    LET recent_logs == LastItems(logs, limit)
    IN  Join([i \in 1..Len(recent_logs) |-> PromptLogLine(recent_logs[i])],
             <<"\n">>)

FormatLogsForPrompt(logs, limit) ==
    IF logs = <<>> THEN NoLogsText
    ELSE LET recent_logs == LastItems(logs, limit)
         IN  Join([i \in 1..Len(recent_logs) |->
                      PromptLogLine(recent_logs[i])], <<"\n">>)

\* the HH:MM:SS of format line of the audit formatters
AuditTimePart(timestamp) ==
    IF "T" \in Chars(timestamp)
    THEN Prefix(SplitSecond(timestamp, "T"), 8)
    ELSE Prefix(timestamp, 8)

\* one line of get_daily_summary_for_audit
SummaryLine(i, log) ==
    LET entry == PadNumber(i) \o <<".", " ">>
                 \o AuditTimePart(log.timestamp) \o <<" ", "[">>
                 \o PadRight(TypeUpper(log.type), 10) \o <<"]", " ">>
                 \o log.content
    IN  IF log.ai_response # <<>> /\ PyStrip(log.ai_response) # <<>>
        THEN entry \o <<"\n", " ", " ", " ", " ", " ", " ", " ", " ",
                        "A", "I", ":", " ">>
                   \o Prefix(log.ai_response, 100) \o <<".", ".", ".">>
        ELSE entry

\* get_daily_summary_for_audit on today's list `logs`
GetDailySummaryForAudit(logs) ==
    IF logs = <<>> THEN NoLogsText
    ELSE Join([i \in 1..Len(logs) |-> SummaryLine(i, logs[i])], <<"\n">>)

\* ------------------------------------------------------------------------
\* PromptManager: the stream prompt and the review prompt
\* ------------------------------------------------------------------------

\* an optional list argument: None, or a list
PyNone == [none |-> TRUE, list |-> <<>>]
PyList(l) == [none |-> FALSE, list |-> l]

\* one line of _format_daily_logs_for_audit
AuditLogLine_WithType(log) ==
    <<"[">> \o AuditTimePart(log.timestamp) \o <<"]", " ">>
    \o TypeUpper(log.type) \o <<" ">> \o log.content

AuditLogLine(log) ==
    <<"[">> \o AuditTimePart(log.timestamp) \o <<"]", " ">> \o log.content

\* _format_daily_logs_for_audit
FormatDailyLogsForAudit(daily_logs) ==
    IF daily_logs = <<>> THEN <<>>
    ELSE DailyLogsHeader
         \o Join([i \in 1..Len(daily_logs) |-> AuditLogLine(daily_logs[i])],
                 <<"\n", " ", " ">>)

\* no prompt rendered by the current operation
NoRendered ==
    [template |-> "none", user_input |-> <<>>, recent_logs |-> <<>>,
     pending |-> <<>>, completed |-> <<>>, daily_logs_summary |-> <<>>]

\* render_stream_response_prompt: the fields spliced into its template
RenderStreamResponsePrompt(user_input, recent_logs) ==
    [template |-> "stream", user_input |-> user_input,
     recent_logs |-> IF recent_logs # <<>> THEN recent_logs
                     ELSE NoRecentLogsText,
     pending |-> <<>>, completed |-> <<>>, daily_logs_summary |-> <<>>]

\* render_auditor_prompt: the fields spliced into its template; the log
\* summary stays "" unless daily_logs is a list with entries
RenderAuditorPrompt(tasks_data, daily_logs, user_input) ==
    [template |-> "auditor", user_input |-> user_input,
     recent_logs |-> <<>>,
     pending |-> tasks_data.pending, completed |-> tasks_data.completed,
     daily_logs_summary |->
        IF ~daily_logs.none /\ daily_logs.list # <<>>
        THEN FormatDailyLogsForAudit(daily_logs.list)
        ELSE <<>>]

\* ------------------------------------------------------------------------
\* What the two consuming layers deliver of a stream reply
\* ------------------------------------------------------------------------

\* nothing delivered
NoDelivery == [flag |-> FALSE, printed |-> FALSE, text |-> <<>>]

\* _display_stream_response: flag whether the flag line is printed, printed
\* whether the reply line is printed, text its text
DisplayStreamResponse(ai_response) ==
    LET clean_response == PyStrip(ai_response)
        actual_content ==
            PyStrip(Remove(Remove(clean_response, AuditMarker),
                           AuditBoilerplate))
    IN  IF Contains(clean_response, AuditMarker)
        THEN [flag |-> TRUE, printed |-> actual_content # <<>>,
              text |-> actual_content]
        ELSE [flag |-> FALSE, printed |-> TRUE, text |-> clean_response]

\* process_wechat_message: the text returned for a stream reply, flag
\* whether it starts with the flag lines
WechatResponse(ai_response) ==
    IF Contains(ai_response, AuditMarker)
    THEN [flag |-> TRUE, printed |-> TRUE,
          text |-> PyStrip(Remove(ai_response, AuditMarker))]
    ELSE [flag |-> FALSE, printed |-> TRUE, text |-> ai_response]

\* _process_done_command: command[5:].strip()
DoneTaskName(command) == PyStrip(DropFirst(command, 5))

\* the task names the daily review takes from today's list
RECURSIVE CompletedFromLogs(_)
CompletedFromLogs(daily_logs) ==
    IF daily_logs = <<>> THEN <<>>
    ELSE LET log == Head(daily_logs)
             rest == CompletedFromLogs(Tail(daily_logs))
         IN  IF log.type = "task_completion"
                /\ Contains(log.content, DoneLogMarker)
             THEN <<PyStrip(Remove(log.content, DoneLogMarker))>> \o rest
             ELSE rest

\* ------------------------------------------------------------------------
\* Inputs
\* ------------------------------------------------------------------------

\* what the user types at the goal prompt
Goals == {<<>>, <<" ">>, <<"g">>, <<" ", "g", " ">>}

\* what the user types at the confirmation prompt
Answers == {<<"y">>, <<" ", "Y">>, <<"n">>, <<>>}

\* ids the task service gives to a created task
TaskIds == {"t1", "t2"}

\* TICKTICK_INBOX_ID as configured
InboxIds == {"", "inbox"}

\* lines typed at the war room prompt, and messages sent to the chat bridge
StreamInputs ==
    {<<>>,
     <<"x">>,
     <<" ", "x">>,
     DoneCommand,
     DoneCommand \o <<" ", "x">>,
     DoneCommand \o <<" ">> \o DoneLogMarker \o <<"x">>,
     <<"/", "r", "e", "v", "i", "e", "w">>,
     <<"/", "q", "u", "i", "t">>}

\* what LLMClient.chat returns for a stream prompt: guidance alone, the
\* marker with and without its phrase before the guidance, and the marker
\* and phrase alone
StreamReplies ==
    {<<"g">>,
     AuditMarker \o <<" ">> \o AuditBoilerplate \o <<" ", "g">>,
     AuditMarker \o <<" ", "g">>,
     AuditMarker \o <<" ">> \o AuditBoilerplate}

\* what the user types as the progress of the day
ProgressInputs == {<<>>, <<"p">>}

\* numbers of tasks in the inbox
InboxSizes == {0, 1, MaxInbox}

\* the titles of an inbox of n tasks (title i stands for the i-th task)
InboxTitles(n) == [i \in 1..n |-> i]

\* the days of the model
Days == 0..MaxDay

\* the two callers of add_log_entry that run at the same time
Writers == {1, 2}

\* UserContext(): the defaults of the dataclass (Chinese text, written as
\* its code points)
DefaultContext ==
    [core_learning |-> "U+96C5 U+601D / U+6280 U+672F U+8FDB U+9636",
     side_hustle |->
         "U+5C0F U+8BF4 U+521B U+4F5C / U+5F00 U+6E90 U+9879 U+76EE",
     career_field |-> "U+5D4C U+5165 U+5F0F U+5F00 U+53D1"]

\* ------------------------------------------------------------------------
\* DidaClient: the read adapters (dida_client.py)
\* ------------------------------------------------------------------------
\* A task is its `status` (0 normal, 1 archived, 2 completed), a project its
\* id; a response is what session.get and raise_for_status gave: a
\* RequestException (raised) or the items of the body.

\* no adapter has returned
NoFetch == [status |-> "none", items |-> <<>>]

Response(raised, items) == [raised |-> raised, items |-> items]

\* a GET request of an adapter and its response
Get(adapter, project, response) ==
    [adapter |-> adapter, project |-> project, raised |-> response.raised,
     items |-> response.items]

\* get_inbox_tasks: [] without an inbox id, [] when the request raises
GetInboxTasks(inbox, response) ==
    IF inbox = "" \/ response.raised
    THEN [status |-> "ok", items |-> <<>>]
    ELSE [status |-> "ok", items |-> response.items]

\* (a variant that lets the failure out)
GetProjectTasks_Reraises(response) ==
    IF response.raised
    THEN [status |-> "raised", items |-> <<>>]
    ELSE [status |-> "ok", items |-> response.items]

\* get_project_tasks: [] when the request raises
GetProjectTasks(response) ==
    IF response.raised
    THEN [status |-> "ok", items |-> <<>>]
    ELSE [status |-> "ok", items |-> response.items]

\* get_all_projects: logs the failure and raises it again
GetAllProjects(response) ==
    IF response.raised
    THEN [status |-> "raised", items |-> <<>>]
    ELSE [status |-> "ok", items |-> response.items]

\* one round of get_project_tasks_batch: results[project_id] is the list
\* get_project_tasks returned, or [] when the call raised
BatchEntry(result) == IF result.status = "ok" THEN result.items ELSE <<>>

\* all_tasks of get_active_tasks_from_all_projects
RECURSIVE AllTasks(_)
AllTasks(results) ==
    IF results = <<>> THEN <<>> ELSE Head(results) \o AllTasks(Tail(results))

\* `task.get('status', 0) in [0, 1]`
IsActive(task) == task \in {0, 1}
ActiveTasks(all_tasks) == SelectSeq(all_tasks, IsActive)

\* the bodies the task service answers with
ProjectLists == {[i \in 1..n |-> i] : n \in 0..MaxProjects}
TaskLists == {<<>>, <<0>>, <<2>>, <<2, 0>>}
ListingResponses ==
    {Response(TRUE, <<>>)} \cup {Response(FALSE, l) : l \in ProjectLists}
TaskResponses ==
    {Response(TRUE, <<>>)} \cup {Response(FALSE, l) : l \in TaskLists}

\* ------------------------------------------------------------------------
\* DidaClient.create_task: the validation of its arguments
\* ------------------------------------------------------------------------

\* iso_pattern between ^ and $: "d" is \d, "s" is [+-], any other item is
\* the character itself
IsoPattern ==
    <<"d", "d", "d", "d", "-", "d", "d", "-", "d", "d", "T", "d", "d", ":",
      "d", "d", ":", "d", "d", "s", "d", "d", ":", "d", "d">>

MatchesItem(c, item) ==
    IF item = "d" THEN c \in {DigitChars[i] : i \in 1..Len(DigitChars)}
    ELSE IF item = "s" THEN c \in {"+", "-"}
    ELSE c = item

\* the text has the form YYYY-MM-DDTHH:MM:SS+HH:MM (or -HH:MM)
IsIsoFormat(text) ==
    /\ Len(text) = Len(IsoPattern)
    /\ \A i \in 1..Len(IsoPattern) : MatchesItem(text[i], IsoPattern[i])

\* re.match(iso_pattern, due_date): $ matches at the end of the string and
\* also just before a newline that ends the string
ReMatchIso(due_date) ==
    \/ IsIsoFormat(due_date)
    \/ /\ Len(due_date) = Len(IsoPattern) + 1
       /\ due_date[Len(due_date)] = "\n"
       /\ IsIsoFormat(SubSeq(due_date, 1, Len(IsoPattern)))

\* create_task(title, due_date=due_date) up to the request: CreateTaskCheck
\* with the check of the due date (`if due_date:`) between its two tests
CreateTaskDueCheck(title, due_date, inbox) ==
    IF CreateTaskCheck(title, inbox) = "ValueError" THEN "ValueError"
    ELSE IF due_date # <<>> /\ ~ReMatchIso(due_date) THEN "ValueError"
    ELSE CreateTaskCheck(title, inbox)

\* the payload of a create_task call without content and parent: dueDate
\* is the text passed, <<>> stands for a payload without that key
DuePayload(title, due_date) ==
    [title |-> PyStrip(title), content |-> <<>>, parentId |-> "",
     dueDate |-> due_date]

\* no direct create_task call has been made
NotCreated == [title |-> <<>>, due_date |-> <<>>, result |-> "none"]

\* titles and due dates passed by a direct caller (<<>>: no due date)
CallTitles == {<<>>, <<" ">>, <<" ", "t">>}
ValidDueDate ==
    <<"2", "0", "2", "4", "-", "0", "1", "-", "0", "2", "T", "0", "9", ":",
      "0", "0", ":", "0", "0", "+", "0", "8", ":", "0", "0">>
CallDueDates ==
    {<<>>, ValidDueDate, ValidDueDate \o <<"\n">>,
     SubSeq(ValidDueDate, 1, 10), SubSeq(ValidDueDate, 1, 19) \o <<"Z">>}

\* ------------------------------------------------------------------------
\* PromptManager: the render operations with the UserContext they read
\* ------------------------------------------------------------------------

\* a UserContext passed to PromptManager(context)
CustomContext ==
    [core_learning |-> "core", side_hustle |-> "side",
     career_field |-> "career"]
UserContexts == {DefaultContext, CustomContext}

\* render_dashboard_prompt: the fields spliced into its template;
\* summary['total_active_tasks'] raises KeyError for a summary without it
NoDashboardPrompt ==
    [template |-> "none", total_active_tasks |-> 0, overdue_tasks |-> 0,
     high_priority_count |-> 0, task_list_str |-> <<>>]
RenderDashboardPrompt(summary, task_list_str) ==
    IF summary.total_active_tasks.k = "absent"
    THEN [NoDashboardPrompt EXCEPT !.template = "KeyError"]
    ELSE [template |-> "dashboard",
          total_active_tasks |-> summary.total_active_tasks.n,
          overdue_tasks |-> DictGet(summary.overdue_tasks, JInt(0)).n,
          high_priority_count |->
              DictGet(summary.high_priority_count, JInt(0)).n,
          task_list_str |-> task_list_str]

\* the arguments of a render call; an operation uses its own and leaves
\* the others as they are here
NoArgs ==
    [goal |-> <<>>, context |-> "", user_input |-> <<>>,
     recent_logs |-> <<>>,
     tasks_data |-> [pending |-> <<>>, completed |-> <<>>],
     daily_logs |-> PyNone,
     summary |-> [total_active_tasks |-> Absent, overdue_tasks |-> Absent,
                  high_priority_count |-> Absent],
     task_list_str |-> <<>>]

\* the arguments direct callers pass
PlannerArgs ==
    {[NoArgs EXCEPT !.goal = g, !.context = c] :
        g \in {<<>>, <<"g">>}, c \in {"", PlannerContext}}
StreamArgs ==
    {[NoArgs EXCEPT !.user_input = u, !.recent_logs = r] :
        u \in {<<>>, <<"x">>}, r \in {<<>>, <<"r">>}}
AuditorArgs ==
    {[NoArgs EXCEPT !.tasks_data = t, !.daily_logs = l, !.user_input = u] :
        t \in {[pending |-> <<>>, completed |-> <<>>],
               [pending |-> <<1>>, completed |-> <<(<<"x">>)>>]},
        l \in {PyNone, PyList(<<>>),
               PyList(<<LogEntry("user_input", <<"x">>, 0, 0)>>)},
        u \in {<<>>, <<"p">>}}
DashboardArgs ==
    {[NoArgs EXCEPT !.summary = m, !.task_list_str = t] :
        m \in {[total_active_tasks |-> Absent, overdue_tasks |-> Absent,
                high_priority_count |-> Absent],
               [total_active_tasks |-> JInt(1), overdue_tasks |-> Absent,
                high_priority_count |-> JInt(1)],
               [total_active_tasks |-> JInt(1), overdue_tasks |-> JInt(1),
                high_priority_count |-> Absent]},
        t \in {<<>>, <<"1", ".">>}}

\* ------------------------------------------------------------------------
\* State
\* ------------------------------------------------------------------------

VARIABLES
    pc,             \* position: "menu", "goal", "planning", "confirm",
                    \* "parent", "subtasks", "exited", "crashed" in main.py;
                    \* "api", "api_ret" for direct calls of the public methods;
                    \* "warroom", "stream_call", "review", "clear_prompt",
                    \* "save_prompt" in the war room and the auditor;
                    \* "plugin" before the chat-bridge plugin is built;
                    \* "bridge", "bridge_call" in process_wechat_message;
                    \* "logapi", "logapi_ret" for direct calls of
                    \* DailyLogManager; "writers" for concurrent callers;
                    \* "dash_projects", "dash_batch", "dash_report" in
                    \* run_dashboard; "dida", "dida_ret" for direct calls
                    \* of DidaClient; "pm" for calls of PromptManager
    inbox_id,       \* DidaClient.inbox_id
    goal,           \* the goal of the current planning call
    prompt,         \* the planner prompt rendered last
    llm_calls,      \* chat-completion requests made by the current operation
    requests,       \* those requests in order: [response_format, raised]
    llm_reply,      \* the reply text the last planning call got
    plan,           \* result of the last planning call
    confirm,        \* [asked, answer]: the confirmation prompt of this run
    posted,         \* POST /task payloads sent by the current run, in order
    results,        \* results[j]: whether posted[j] created a task
    parent_id,      \* id returned for the parent task ("" before)
    idx,            \* position of the subtask loop in plan.tasks
    success_count,  \* success_count of run_planner
    out,            \* the diagnostic printed last
    today,          \* the calendar day, which names today's log file
    files,          \* files[d]: the list stored in the log file of day d
    written,        \* log entries written so far (the clock of the model)
    said,           \* the input the current turn dispatches on
    rendered,       \* the stream or review prompt rendered by this turn
    chats,          \* the chat completions requested by this turn
    ai_reply,       \* the reply the stream prompt of this turn got
    shown,          \* what the surface delivers of it: printed by the war
                    \* room, returned by process_wechat_message
    returned,       \* the text returned by a direct call of a formatter
    writers,        \* writers[w]: the add_log_entry call of caller w
    cwd,            \* the working directory of the process
    manager,        \* whether the plugin holds an AIProjectManager
    original_cwd,   \* original_cwd of the plugin method that ran last
    gets,           \* GET requests sent by the current DidaClient operation
    fetched,        \* what a direct call of a DidaClient adapter gave
    create_call,    \* a direct create_task call: its arguments and result
    projects,       \* what get_all_projects gave the dashboard
    project_tasks,  \* results of get_project_tasks_batch, in fetch order
    user_context,   \* PromptManager.context, the UserContext
    calls           \* the render calls a direct caller has made

vars == <<pc, inbox_id, goal, prompt, llm_calls, requests, llm_reply,
          plan, confirm,
          posted, results, parent_id, idx, success_count, out,
          today, files, written, said, rendered, chats, ai_reply, shown,
          returned, writers, cwd, manager, original_cwd, gets, fetched, create_call,
          projects, project_tasks, user_context, calls>>

\* the state of the planner, and the state of the stream log
planner_vars == <<goal, prompt, llm_calls, requests, llm_reply, plan,
                  posted, results, parent_id, idx, success_count>>
log_vars == <<today, files, written, said, rendered, chats, ai_reply, shown,
              returned, writers>>

\* the process of the chat bridge host, the state of the task-service
\* adapters and of the dashboard, and the state of the PromptManager
plugin_vars == <<cwd, manager, original_cwd>>
dida_vars == <<gets, fetched, create_call, projects, project_tasks>>
pm_vars == <<user_context, calls>>

\* no reply received
NoStreamReply == [got |-> FALSE, text |-> <<>>]

\* caller w is not inside add_log_entry
Idle == [at |-> "idle", day |-> 0, log_type |-> "", content |-> <<>>,
         logs |-> <<>>]

NotAsked == [asked |-> FALSE, answer |-> <<>>]

\* the log directory holds no file, nothing was said or rendered
InitLog ==
    /\ today = 0
    /\ files = [d \in Days |-> <<>>]
    /\ written = 0
    /\ said = <<>>
    /\ rendered = NoRendered
    /\ chats = <<>>
    /\ ai_reply = NoStreamReply
    /\ shown = NoDelivery
    /\ returned = <<>>
    /\ writers = [w \in Writers |-> Idle]

\* the directory the host runs in, and MY_PROJECT_PATH
HostPath == "host"

ProjectPath == "project"

\* the process runs in the directory it was started in and no plugin has
\* been built
InitPlugin ==
    /\ cwd = HostPath
    /\ manager = FALSE
    /\ original_cwd = HostPath

\* no DidaClient operation has run
InitDida ==
    /\ gets = <<>>
    /\ fetched = NoFetch
    /\ create_call = NotCreated
    /\ projects = NoFetch
    /\ project_tasks = <<>>

\* PromptManager() holds the default UserContext
InitPM ==
    /\ user_context = DefaultContext
    /\ calls = <<>>

\* main.py under a configuration with or without an inbox id, or a caller
\* that has constructed the clients and calls their methods
Init ==
    /\ \/ pc = "menu" /\ inbox_id \in InboxIds
       \/ pc = "api" /\ inbox_id = "inbox"
    /\ goal = <<>>
    /\ prompt = NoPrompt
    /\ llm_calls = 0
    /\ requests = <<>>
    /\ llm_reply = NoReply
    /\ plan = NoResult
    /\ confirm = NotAsked
    /\ posted = <<>>
    /\ results = <<>>
    /\ parent_id = ""
    /\ idx = 0
    /\ success_count = 0
    /\ out = "none"
    /\ InitLog
    /\ InitPlugin
    /\ InitDida
    /\ InitPM

\* the locals of a run_planner call, as they are when it is entered
EnterOperation ==
    /\ goal' = <<>>
    /\ prompt' = NoPrompt
    /\ llm_calls' = 0
    /\ requests' = <<>>
    /\ llm_reply' = NoReply
    /\ plan' = NoResult
    /\ confirm' = NotAsked
    /\ posted' = <<>>
    /\ results' = <<>>
    /\ parent_id' = ""
    /\ idx' = 0
    /\ success_count' = 0
    /\ out' = "none"

\* ------------------------------------------------------------------------
\* AIProjectManager.start: the menu loop
\* ------------------------------------------------------------------------

\* choice '1': run_planner is entered and asks for the goal
MenuPlanner ==
    /\ UNCHANGED <<log_vars, plugin_vars, dida_vars, pm_vars>>
    /\ pc = "menu"
    /\ pc' = "goal"
    /\ EnterOperation
    /\ UNCHANGED inbox_id

\* choice '0' or 'q'
MenuExit ==
    /\ UNCHANGED <<log_vars, plugin_vars, dida_vars, pm_vars>>
    /\ pc = "menu"
    /\ pc' = "exited"
    /\ UNCHANGED <<inbox_id, goal, prompt, llm_calls, requests,
                   llm_reply, plan,
                   confirm, posted, results, parent_id, idx, success_count,
                   out>>

\* ------------------------------------------------------------------------
\* AIProjectManager.run_planner
\* ------------------------------------------------------------------------

\* the goal is read and stripped; a blank goal returns to the menu
PlannerGoal ==
    /\ UNCHANGED <<log_vars, plugin_vars, dida_vars, pm_vars>>
    /\ pc = "goal"
    /\ \E typed \in Goals :
          /\ goal' = PyStrip(typed)
          /\ IF PyStrip(typed) = <<>>
             THEN pc' = "menu" /\ out' = "no_goal"
             ELSE pc' = "planning" /\ out' = "thinking"
    /\ UNCHANGED <<inbox_id, prompt, llm_calls, requests,
                   llm_reply, plan, confirm,
                   posted, results, parent_id, idx, success_count>>

\* one chat.completions.create call: whether it carries response_format
\* {"type": "json_object"}, and whether it raised
Request(response_format, raised) ==
    [response_format |-> response_format, raised |-> raised]

\* where run_planner goes with the result of _generate_task_plan_with_pm
AfterPlanning(result) ==
    IF result.status # "ok"
    THEN pc' = "menu" /\ out' = "planning_failed"
    ELSE IF NoUsablePlan(result.tasks)
    THEN pc' = "menu" /\ out' = "no_tasks"
    ELSE pc' = "confirm" /\ out' = "plan_shown"

\* _generate_task_plan_with_pm: the prompt is rendered, one chat completion
\* is requested, and either the request raises or its reply is parsed
PlannerGenerate ==
    /\ UNCHANGED <<log_vars, plugin_vars, dida_vars, pm_vars>>
    /\ pc = "planning"
    /\ prompt' = RenderPlannerPrompt(goal, PlannerContext)
    /\ llm_calls' = llm_calls + 1
    /\ \/ /\ requests' = Append(requests, Request(TRUE, TRUE))
          /\ llm_reply' = NoReply
          /\ plan' = [status |-> "RuntimeError", tasks |-> <<>>,
                      warned |-> <<>>]
       \/ \E content \in Replies :
             /\ requests' = Append(requests, Request(TRUE, FALSE))
             /\ llm_reply' = content
             /\ plan' = PMParsePlan(content)
    /\ AfterPlanning(plan')
    /\ UNCHANGED <<inbox_id, goal, confirm, posted, results, parent_id, idx,
                   success_count>>

\* (a run_planner that goes on to write without asking)
PlannerConfirm_Unasked ==
    /\ UNCHANGED <<log_vars, plugin_vars, dida_vars, pm_vars>>
    /\ pc = "confirm"
    /\ pc' = "parent" /\ out' = "writing"
    /\ llm_reply' = NoReply
    /\ UNCHANGED <<inbox_id, goal, prompt, llm_calls, requests, plan,
                   confirm, posted, results, parent_id, idx, success_count>>

\* the answer to "Execute and write to TickTick? (y/n)"
PlannerConfirm ==
    /\ UNCHANGED <<log_vars, plugin_vars, dida_vars, pm_vars>>
    /\ pc = "confirm"
    /\ \E answer \in Answers :
          /\ confirm' = [asked |-> TRUE,
                         answer |-> PyStrip(PyLower(answer))]
          /\ IF Confirmed(answer)
             THEN pc' = "parent" /\ out' = "writing"
             ELSE pc' = "menu" /\ out' = "cancelled"
    /\ llm_reply' = NoReply
    /\ UNCHANGED <<inbox_id, goal, prompt, llm_calls, requests,
                   plan, posted, results,
                   parent_id, idx, success_count>>

\* create_task for the parent task: without a project id it returns None
\* before any request; the request fails or returns the new task
PlannerCreateParent ==
    /\ UNCHANGED <<log_vars, plugin_vars, dida_vars, pm_vars>>
    /\ pc = "parent"
    /\ LET check == CreateTaskCheck(ParentTitle(goal), inbox_id)
           payload == TaskPayload(ParentTitle(goal), ParentContent, "", 0)
       IN  \/ /\ check = "ValueError"
              /\ pc' = "crashed" /\ out' = "unexpected_error"
              /\ UNCHANGED <<posted, results, parent_id, idx>>
           \/ /\ check = "None"
              /\ pc' = "menu" /\ out' = "parent_failed"
              /\ UNCHANGED <<posted, results, parent_id, idx>>
           \/ /\ check = "post"
              /\ posted' = Append(posted, payload)
              /\ \/ /\ results' = Append(results, FALSE)
                    /\ pc' = "menu" /\ out' = "parent_failed"
                    /\ UNCHANGED <<parent_id, idx>>
                 \/ \E id \in TaskIds :
                       /\ results' = Append(results, TRUE)
                       /\ parent_id' = id
                       /\ idx' = 1
                       /\ pc' = "subtasks" /\ out' = "parent_created"
    /\ UNCHANGED <<inbox_id, goal, prompt, llm_calls, requests,
                   llm_reply, plan,
                   confirm, success_count>>

\* one round of `for task in tasks`: create_task for plan.tasks[idx]; a
\* ValueError of create_task leaves run_planner and start, and main() exits
PlannerCreateSubtask ==
    /\ UNCHANGED <<log_vars, plugin_vars, dida_vars, pm_vars>>
    /\ pc = "subtasks"
    /\ LET task == plan.tasks[idx]
           check == CreateTaskCheck(task.title, inbox_id)
           payload == TaskPayload(task.title, task.content, parent_id,
                                  task.day_offset)
           last == idx = Len(plan.tasks)
       IN  \/ /\ check = "ValueError"
              /\ pc' = "crashed" /\ out' = "unexpected_error"
              /\ UNCHANGED <<posted, results, idx, success_count>>
           \/ /\ check # "ValueError"
              /\ \E created \in BOOLEAN :
                    /\ IF check = "post"
                       THEN /\ posted' = Append(posted, payload)
                            /\ results' = Append(results, created)
                            /\ success_count' =
                                  IF created THEN success_count + 1
                                  ELSE success_count
                       ELSE /\ created = FALSE
                            /\ UNCHANGED <<posted, results, success_count>>
              /\ idx' = idx + 1
              /\ IF last
                 THEN pc' = "menu" /\ out' = "complete"
                 ELSE pc' = "subtasks" /\ out' = "subtask_done"
    /\ UNCHANGED <<inbox_id, goal, prompt, llm_calls, requests,
                   llm_reply, plan,
                   confirm, parent_id>>

\* ------------------------------------------------------------------------
\* Direct calls of the public methods (as llm_client.main and the chat
\* bridge plugin make them), one at a time
\* ------------------------------------------------------------------------

\* goals passed by a direct caller
CallGoals == {<<"g">>}

\* PromptManager.render_planner_prompt(goal, context)
CallRenderPlannerPrompt ==
    /\ UNCHANGED <<log_vars, plugin_vars, dida_vars, pm_vars>>
    /\ pc = "api"
    /\ \E g \in Goals, context \in {"", PlannerContext} :
          /\ goal' = g
          /\ prompt' = RenderPlannerPrompt(g, context)
    /\ pc' = "api_ret"
    /\ out' = "prompt_returned"
    /\ UNCHANGED <<inbox_id, llm_calls, requests,
                   llm_reply, plan, confirm, posted,
                   results, parent_id, idx, success_count>>

\* the requests of generate_task_plan: the one with response_format and,
\* when that raised, one more after `del create_params["response_format"]`
FallbackRequests(first_raises, second_raises) ==
    IF first_raises
    THEN <<Request(TRUE, TRUE), Request(FALSE, second_raises)>>
    ELSE <<Request(TRUE, FALSE)>>

\* LLMClient.generate_task_plan(goal): a request with response_format; when
\* it raises, one request without; the reply of the request that succeeded
\* is parsed
CallGenerateTaskPlan ==
    /\ UNCHANGED <<log_vars, plugin_vars, dida_vars, pm_vars>>
    /\ pc = "api"
    /\ \E g \in CallGoals : goal' = g
    /\ \E first_raises \in BOOLEAN :
          /\ llm_calls' = IF first_raises THEN 2 ELSE 1
          /\ \/ /\ first_raises
                /\ requests' = FallbackRequests(TRUE, TRUE)
                /\ llm_reply' = NoReply
                /\ plan' = [status |-> "RuntimeError", tasks |-> <<>>,
                            warned |-> <<>>]
             \/ \E content \in Replies :
                   /\ requests' = FallbackRequests(first_raises, FALSE)
                   /\ llm_reply' = content
                   /\ plan' = LLMParsePlan(content)
    /\ pc' = "api_ret"
    /\ out' = IF plan'.status = "ok" THEN "plan_returned" ELSE "plan_raised"
    /\ UNCHANGED <<inbox_id, prompt, confirm, posted, results, parent_id,
                   idx, success_count>>

\* the caller goes on to its next call
CallReturn ==
    /\ UNCHANGED <<log_vars, plugin_vars, dida_vars, pm_vars>>
    /\ pc = "api_ret"
    /\ pc' = "api"
    /\ EnterOperation
    /\ UNCHANGED inbox_id

Next ==
    \/ MenuPlanner
    \/ MenuExit
    \/ PlannerGoal
    \/ PlannerGenerate
    \/ PlannerConfirm
    \/ PlannerCreateParent
    \/ PlannerCreateSubtask
    \/ CallRenderPlannerPrompt
    \/ CallGenerateTaskPlan
    \/ CallReturn

Spec == Init /\ [][Next]_vars

\* ------------------------------------------------------------------------
\* The stream log under the menu loop, the chat bridge and direct calls
\* ------------------------------------------------------------------------
\* The planner neither reads nor writes the log files and the stream
\* operations use nothing of the planner, so the two are explored under two
\* specifications: Spec above, SpecLog below.

\* where the program waits (for input, for a message, for a reply)
Waiting == {"menu", "warroom", "stream_call", "clear_prompt", "save_prompt",
            "plugin", "bridge", "bridge_call", "logapi"}

\* nothing rendered, requested, received or delivered yet in this turn
ResetTurn ==
    /\ rendered' = NoRendered
    /\ chats' = <<>>
    /\ ai_reply' = NoStreamReply
    /\ shown' = NoDelivery
    /\ returned' = <<>>
    /\ confirm' = NotAsked

\* the program starts under start(), as the chat bridge plugin, or as a
\* caller of DailyLogManager; an inbox id is configured (without one
\* get_inbox_tasks returns [], as it does for an inbox of no tasks)
InitLogSpec ==
    /\ pc \in {"menu", "plugin", "logapi"}
    /\ inbox_id = "inbox"
    /\ goal = <<>>
    /\ prompt = NoPrompt
    /\ llm_calls = 0
    /\ requests = <<>>
    /\ llm_reply = NoReply
    /\ plan = NoResult
    /\ confirm = NotAsked
    /\ posted = <<>>
    /\ results = <<>>
    /\ parent_id = ""
    /\ idx = 0
    /\ success_count = 0
    /\ out = "none"
    /\ InitLog
    /\ InitPlugin
    /\ InitDida
    /\ InitPM

\* the date changes while the program waits
Midnight ==
    /\ pc \in Waiting
    /\ today < MaxDay
    /\ today' = today + 1
    /\ UNCHANGED <<pc, inbox_id, confirm, out, files, written, said,
                   rendered, chats, ai_reply, shown, returned, writers>>
    /\ UNCHANGED <<planner_vars, plugin_vars, dida_vars, pm_vars>>

\* choice '4': run_strategic_war_room is entered
MenuWarRoom ==
    /\ pc = "menu"
    /\ pc' = "warroom"
    /\ out' = "war_room"
    /\ said' = <<>>
    /\ ResetTurn
    /\ UNCHANGED <<inbox_id, today, files, written, writers>>
    /\ UNCHANGED <<planner_vars, plugin_vars, dida_vars, pm_vars>>

\* the branch of the war room loop that a stripped line takes
WarRoomBranch_DoneAsStream(user_input) ==
    IF user_input = <<>> THEN "blank"
    ELSE IF user_input \in ReviewCommands THEN "review"
    ELSE IF user_input \in QuitCommands THEN "quit"
    ELSE "stream"

WarRoomBranch(user_input) ==
    IF user_input = <<>> THEN "blank"
    ELSE IF StartsWith(user_input, DoneCommand) THEN "done"
    ELSE IF user_input \in ReviewCommands THEN "review"
    ELSE IF user_input \in QuitCommands THEN "quit"
    ELSE "stream"

\* a blank line: `continue`
WarRoomBlank ==
    /\ pc = "warroom"
    /\ \E typed \in StreamInputs :
          /\ WarRoomBranch(PyStrip(typed)) = "blank"
          /\ said' = PyStrip(typed)
    /\ out' = "prompt"
    /\ ResetTurn
    /\ UNCHANGED <<pc, inbox_id, today, files, written, writers>>
    /\ UNCHANGED <<planner_vars, plugin_vars, dida_vars, pm_vars>>

\* "/done ...": _process_done_command records the completion, or prints the
\* usage when no task name follows
WarRoomDone ==
    /\ pc = "warroom"
    /\ \E typed \in StreamInputs :
          LET user_input == PyStrip(typed)
              task_name == DoneTaskName(user_input)
          IN  /\ WarRoomBranch(user_input) = "done"
              /\ said' = user_input
              /\ IF task_name = <<>>
                 THEN /\ out' = "done_usage"
                      /\ UNCHANGED <<files, written>>
                 ELSE /\ written < MaxLog
                      /\ files' = AddLogEntry(files, today, written,
                                              "task_completion",
                                              DoneLogPrefix \o task_name)
                      /\ written' = written + 1
                      /\ out' = "done_recorded"
    /\ ResetTurn
    /\ UNCHANGED <<pc, inbox_id, today, writers>>
    /\ UNCHANGED <<planner_vars, plugin_vars, dida_vars, pm_vars>>

\* "/review": _trigger_daily_review is entered
WarRoomReview ==
    /\ pc = "warroom"
    /\ \E typed \in StreamInputs :
          /\ WarRoomBranch(PyStrip(typed)) = "review"
          /\ said' = PyStrip(typed)
    /\ pc' = "review"
    /\ out' = "reviewing"
    /\ ResetTurn
    /\ UNCHANGED <<inbox_id, today, files, written, writers>>
    /\ UNCHANGED <<planner_vars, plugin_vars, dida_vars, pm_vars>>

\* "/quit": back to the menu
WarRoomQuit ==
    /\ pc = "warroom"
    /\ \E typed \in StreamInputs :
          /\ WarRoomBranch(PyStrip(typed)) = "quit"
          /\ said' = PyStrip(typed)
    /\ pc' = "menu"
    /\ out' = "war_room_left"
    /\ ResetTurn
    /\ UNCHANGED <<inbox_id, today, files, written, writers>>
    /\ UNCHANGED <<planner_vars, plugin_vars, dida_vars, pm_vars>>

\* _process_stream_input up to the chat completion: the input is logged,
\* the recent log is formatted and the stream prompt is rendered
WarRoomStream ==
    /\ pc = "warroom"
    /\ written + 2 <= MaxLog
    /\ \E typed \in StreamInputs :
          LET user_input == PyStrip(typed)
              logged == AddLogEntry(files, today, written, "user_input",
                                    user_input)
              recent_logs == FormatLogsForPrompt(GetTodayLogs(logged, today),
                                                 5)
          IN  /\ WarRoomBranch(user_input) = "stream"
              /\ said' = user_input
              /\ files' = logged
              /\ rendered' = RenderStreamResponsePrompt(user_input,
                                                        recent_logs)
    /\ written' = written + 1
    /\ pc' = "stream_call"
    /\ out' = "thinking"
    /\ chats' = <<>>
    /\ ai_reply' = NoStreamReply
    /\ shown' = NoDelivery
    /\ returned' = <<>>
    /\ confirm' = NotAsked
    /\ UNCHANGED <<inbox_id, today, writers>>
    /\ UNCHANGED <<planner_vars, plugin_vars, dida_vars, pm_vars>>

\* (a variant that logs an empty ai_response when the request raises)
StreamReply_LogsFailure ==
    /\ pc = "stream_call"
    /\ chats' = Append(chats, [template |-> rendered.template,
                               max_tokens |-> 200])
    /\ \/ /\ out' = "stream_failed"
          /\ files' = AddLogEntry(files, today, written, "ai_response",
                                  <<>>)
          /\ written' = written + 1
          /\ UNCHANGED <<ai_reply, shown>>
       \/ \E ai_response \in StreamReplies :
             /\ ai_reply' = [got |-> TRUE, text |-> ai_response]
             /\ files' = AddLogEntry(files, today, written, "ai_response",
                                     ai_response)
             /\ written' = written + 1
             /\ shown' = DisplayStreamResponse(ai_response)
             /\ out' = "stream_shown"
    /\ pc' = "warroom"
    /\ UNCHANGED <<inbox_id, confirm, today, said, rendered, returned,
                   writers>>
    /\ UNCHANGED <<planner_vars, plugin_vars, dida_vars, pm_vars>>

\* _process_stream_input from the chat completion on: the request raises
\* and the error is printed, or the reply is logged and displayed
StreamReply ==
    /\ pc = "stream_call"
    /\ chats' = Append(chats, [template |-> rendered.template,
                               max_tokens |-> 200])
    /\ \/ /\ out' = "stream_failed"
          /\ UNCHANGED <<files, written, ai_reply, shown>>
       \/ \E ai_response \in StreamReplies :
             /\ ai_reply' = [got |-> TRUE, text |-> ai_response]
             /\ files' = AddLogEntry(files, today, written, "ai_response",
                                     ai_response)
             /\ written' = written + 1
             /\ shown' = DisplayStreamResponse(ai_response)
             /\ out' = "stream_shown"
    /\ pc' = "warroom"
    /\ UNCHANGED <<inbox_id, confirm, today, said, rendered, returned,
                   writers>>
    /\ UNCHANGED <<planner_vars, plugin_vars, dida_vars, pm_vars>>

\* get_inbox_tasks: the tasks of the inbox, [] without an inbox id
InboxTasks(n) == IF inbox_id = "" THEN <<>> ELSE InboxTitles(n)

\* _trigger_daily_review up to the clear prompt: today's list and the inbox
\* are read, the review prompt is rendered and the report requested; a task
\* without title empties the task data
TriggerDailyReview ==
    /\ pc = "review"
    /\ \E n \in InboxSizes, untitled \in BOOLEAN, chat_raises \in BOOLEAN :
          LET daily_logs == GetTodayLogs(files, today)
              pending_tasks == InboxTasks(n)
              tasks_data ==
                  IF untitled /\ pending_tasks # <<>>
                  THEN [completed |-> <<>>, pending |-> <<>>]
                  ELSE [completed |-> CompletedFromLogs(daily_logs),
                        pending |-> pending_tasks]
          IN  /\ rendered' = RenderAuditorPrompt(tasks_data,
                                                 PyList(daily_logs), <<>>)
              /\ chats' = <<[template |-> "auditor", max_tokens |-> 1500]>>
              /\ IF chat_raises
                 THEN pc' = "menu" /\ out' = "review_failed"
                 ELSE pc' = "clear_prompt" /\ out' = "review_saved"
    /\ UNCHANGED <<inbox_id, confirm, today, files, written, said, ai_reply,
                   shown, returned, writers>>
    /\ UNCHANGED <<planner_vars, plugin_vars, dida_vars, pm_vars>>

\* the answer to the clear prompt: 'y' removes today's file; the war room
\* loop is left either way, and with it the turn
ClearPrompt ==
    /\ pc = "clear_prompt"
    /\ \E answer \in Answers :
          /\ confirm' = [asked |-> TRUE,
                         answer |-> PyStrip(PyLower(answer))]
          /\ IF Confirmed(answer)
             THEN /\ files' = ClearTodayLogs(files, today)
                  /\ out' = "logs_cleared"
             ELSE /\ UNCHANGED files
                  /\ out' = "logs_kept"
    /\ pc' = "menu"
    /\ said' = <<>>
    /\ rendered' = NoRendered
    /\ chats' = <<>>
    /\ UNCHANGED <<inbox_id, today, written, ai_reply, shown, returned,
                   writers>>
    /\ UNCHANGED <<planner_vars, plugin_vars, dida_vars, pm_vars>>

\* choice '2': run_auditor, from the inbox read to the report: it returns to
\* the menu on an empty inbox, a blank progress line or a failed request,
\* else shows the report and asks where to save it
RunAuditor ==
    /\ pc = "menu"
    /\ \E n \in InboxSizes :
          LET tasks == InboxTasks(n)
              task_titles == Prefix(tasks, 10)
              tasks_data == [completed |-> <<>>, pending |-> task_titles]
          IN  IF tasks = <<>>
              THEN /\ out' = "inbox_empty"
                   /\ pc' = "menu"
                   /\ said' = <<>>
                   /\ ResetTurn
              ELSE \E typed \in ProgressInputs :
                 LET user_input == PyStrip(typed)
                 IN  IF user_input = <<>>
                     THEN /\ out' = "no_progress"
                          /\ pc' = "menu"
                          /\ said' = <<>>
                          /\ ResetTurn
                     ELSE \E include \in Answers, chat_raises \in BOOLEAN :
                        LET daily_logs ==
                                IF Confirmed(include)
                                THEN PyList(GetTodayLogs(files, today))
                                ELSE PyNone
                        IN  /\ said' = user_input
                            /\ confirm' =
                                  [asked |-> TRUE,
                                   answer |-> PyStrip(PyLower(include))]
                            /\ rendered' = RenderAuditorPrompt(
                                  tasks_data, daily_logs, user_input)
                            /\ chats' = <<[template |-> "auditor",
                                           max_tokens |-> 500]>>
                            /\ IF chat_raises
                               THEN pc' = "menu" /\ out' = "report_failed"
                               ELSE /\ pc' = "save_prompt"
                                    /\ out' = "report_shown"
                            /\ ai_reply' = NoStreamReply
                            /\ shown' = NoDelivery
                            /\ returned' = <<>>
    /\ UNCHANGED <<inbox_id, today, files, written, writers>>
    /\ UNCHANGED <<planner_vars, plugin_vars, dida_vars, pm_vars>>

\* the answer to the save options of run_auditor: '1' and '2' write the
\* report to a file of its own, anything else does not
AuditorSave ==
    /\ pc = "save_prompt"
    /\ \E save_option \in {<<"1">>, <<"2">>, <<"3">>} :
          out' = IF save_option \in {<<"1">>, <<"2">>} THEN "report_saved"
                 ELSE "report_not_saved"
    /\ pc' = "menu"
    /\ said' = <<>>
    /\ ResetTurn
    /\ UNCHANGED <<inbox_id, today, files, written, writers>>
    /\ UNCHANGED <<planner_vars, plugin_vars, dida_vars, pm_vars>>

\* ------------------------------------------------------------------------
\* StrategicAuditor (deploy/feishu_plugin), the chat-bridge plugin
\* ------------------------------------------------------------------------

\* StrategicAuditor(): the manager is built in the project directory, or
\* building it raises and the plugin stays without one; the finally clause
\* restores the directory either way
PluginInit ==
    /\ pc = "plugin"
    /\ original_cwd' = cwd
    /\ \E built \in BOOLEAN :
          /\ manager' = built
          /\ out' = IF built THEN "plugin_ready" ELSE "plugin_failed"
    /\ cwd' = original_cwd'
    /\ pc' = "bridge"
    /\ UNCHANGED <<inbox_id, confirm>>
    /\ UNCHANGED <<planner_vars, log_vars, dida_vars, pm_vars>>

\* ------------------------------------------------------------------------
\* AIProjectManager.process_wechat_message, called by the plugin's
\* on_handle_context
\* ------------------------------------------------------------------------
\* on_handle_context saves the working directory, changes to the project
\* directory, calls process_wechat_message and changes back when the call
\* has returned (deploy/feishu_plugin/__init__.py, lines 68 to 78).

\* the branch that process_wechat_message takes for a message
WechatBranch(content) ==
    IF StartsWith(content, DoneCommand) THEN "done"
    ELSE IF content \in ReviewCommands THEN "review"
    ELSE "stream"

\* a "/done ..." message: the message is logged, _process_done_command
\* runs, and the confirmation with the task name is returned
BridgeDone ==
    /\ pc = "bridge"
    /\ manager
    /\ \E content \in StreamInputs :
          LET task_name == DoneTaskName(content)
              logged == AddLogEntry(files, today, written, "user_input",
                                    content)
          IN  /\ WechatBranch(content) = "done"
              /\ said' = content
              /\ IF task_name = <<>>
                 THEN /\ written < MaxLog
                      /\ files' = logged
                      /\ written' = written + 1
                 ELSE /\ written + 2 <= MaxLog
                      /\ files' = AddLogEntry(logged, today, written + 1,
                                              "task_completion",
                                              DoneLogPrefix \o task_name)
                      /\ written' = written + 2
              /\ shown' = [flag |-> FALSE, printed |-> TRUE,
                           text |-> task_name]
    /\ out' = "done_reply"
    /\ rendered' = NoRendered
    /\ chats' = <<>>
    /\ ai_reply' = NoStreamReply
    /\ returned' = <<>>
    /\ confirm' = NotAsked
    /\ original_cwd' = cwd
    /\ UNCHANGED <<pc, inbox_id, today, writers, cwd, manager>>
    /\ UNCHANGED <<planner_vars, dida_vars, pm_vars>>

\* a "/review" message: the message is logged and the value of
\* _generate_review_text_only, None, is returned
BridgeReview ==
    /\ pc = "bridge"
    /\ manager
    /\ written < MaxLog
    /\ \E content \in StreamInputs :
          /\ WechatBranch(content) = "review"
          /\ said' = content
          /\ files' = AddLogEntry(files, today, written, "user_input",
                                  content)
    /\ written' = written + 1
    /\ out' = "returned_none"
    /\ ResetTurn
    /\ original_cwd' = cwd
    /\ UNCHANGED <<pc, inbox_id, today, writers, cwd, manager>>
    /\ UNCHANGED <<planner_vars, dida_vars, pm_vars>>

\* any other message, up to the chat completion
BridgeStream ==
    /\ pc = "bridge"
    /\ manager
    /\ written + 2 <= MaxLog
    /\ \E content \in StreamInputs :
          LET logged == AddLogEntry(files, today, written, "user_input",
                                    content)
              recent_logs == FormatLogsForPrompt(GetTodayLogs(logged, today),
                                                 5)
          IN  /\ WechatBranch(content) = "stream"
              /\ said' = content
              /\ files' = logged
              /\ rendered' = RenderStreamResponsePrompt(content, recent_logs)
    /\ written' = written + 1
    /\ pc' = "bridge_call"
    /\ out' = "thinking"
    /\ chats' = <<>>
    /\ ai_reply' = NoStreamReply
    /\ shown' = NoDelivery
    /\ returned' = <<>>
    /\ confirm' = NotAsked
    /\ original_cwd' = cwd
    /\ cwd' = ProjectPath
    /\ UNCHANGED <<inbox_id, today, writers, manager>>
    /\ UNCHANGED <<planner_vars, dida_vars, pm_vars>>

\* from the chat completion on: the request raises and the error text is
\* returned, or the reply is logged and returned, flagged when marked
BridgeReply ==
    /\ pc = "bridge_call"
    /\ chats' = Append(chats, [template |-> rendered.template,
                               max_tokens |-> 300])
    /\ \/ /\ out' = "error_reply"
          /\ shown' = [flag |-> FALSE, printed |-> TRUE, text |-> <<>>]
          /\ UNCHANGED <<files, written, ai_reply>>
       \/ \E ai_response \in StreamReplies :
             /\ ai_reply' = [got |-> TRUE, text |-> ai_response]
             /\ files' = AddLogEntry(files, today, written, "ai_response",
                                     ai_response)
             /\ written' = written + 1
             /\ shown' = WechatResponse(ai_response)
             /\ out' = "reply"
    /\ pc' = "bridge"
    /\ cwd' = original_cwd
    /\ UNCHANGED <<inbox_id, confirm, today, said, rendered, returned,
                   writers, manager, original_cwd>>
    /\ UNCHANGED <<planner_vars, dida_vars, pm_vars>>

\* a text message when the plugin holds no manager: the handler has
\* changed the directory when self.manager raises, and its except clause
\* leaves the directory where it is
BridgeNoManager ==
    /\ pc = "bridge"
    /\ ~manager
    /\ original_cwd' = cwd
    /\ cwd' = ProjectPath
    /\ out' = "handler_error"
    /\ UNCHANGED <<pc, inbox_id, confirm, manager>>
    /\ UNCHANGED <<planner_vars, log_vars, dida_vars, pm_vars>>

\* a message that is not text: the handler returns at once
BridgeNotText ==
    /\ pc = "bridge"
    /\ out' = "ignored"
    /\ UNCHANGED <<pc, inbox_id, confirm>>
    /\ UNCHANGED <<planner_vars, log_vars, plugin_vars, dida_vars, pm_vars>>

\* ------------------------------------------------------------------------
\* Direct calls of DailyLogManager, one at a time
\* ------------------------------------------------------------------------

\* the limits passed to format_logs_for_prompt (its default, and the 5 of
\* the stream handlers)
CallLimits == {1, 5, 20}

\* add_log_entry(log_type, content)
CallAddLogEntry ==
    /\ pc = "logapi"
    /\ written < MaxLog
    /\ \E log_type \in {"user_input", "task_completion"} :
          files' = AddLogEntry(files, today, written, log_type, <<"x">>)
    /\ written' = written + 1
    /\ pc' = "logapi_ret"
    /\ out' = "entry_added"
    /\ UNCHANGED <<inbox_id, confirm, today, said, rendered, chats, ai_reply,
                   shown, returned, writers>>
    /\ UNCHANGED <<planner_vars, plugin_vars, dida_vars, pm_vars>>

\* format_logs_for_prompt(limit)
CallFormatLogsForPrompt ==
    /\ pc = "logapi"
    /\ \E limit \in CallLimits :
          returned' = FormatLogsForPrompt(GetTodayLogs(files, today), limit)
    /\ pc' = "logapi_ret"
    /\ out' = "format_logs_for_prompt"
    /\ UNCHANGED <<inbox_id, confirm, today, files, written, said, rendered,
                   chats, ai_reply, shown, writers>>
    /\ UNCHANGED <<planner_vars, plugin_vars, dida_vars, pm_vars>>

\* get_daily_summary_for_audit()
CallGetDailySummaryForAudit ==
    /\ pc = "logapi"
    /\ returned' = GetDailySummaryForAudit(GetTodayLogs(files, today))
    /\ pc' = "logapi_ret"
    /\ out' = "get_daily_summary_for_audit"
    /\ UNCHANGED <<inbox_id, confirm, today, files, written, said, rendered,
                   chats, ai_reply, shown, writers>>
    /\ UNCHANGED <<planner_vars, plugin_vars, dida_vars, pm_vars>>

\* the caller goes on to its next call
LogCallReturn ==
    /\ pc = "logapi_ret"
    /\ pc' = "logapi"
    /\ out' = "none"
    /\ returned' = <<>>
    /\ UNCHANGED <<inbox_id, confirm, today, files, written, said, rendered,
                   chats, ai_reply, shown, writers>>
    /\ UNCHANGED <<planner_vars, plugin_vars, dida_vars, pm_vars>>

NextLog ==
    \/ Midnight
    \/ MenuWarRoom
    \/ MenuExit
    \/ WarRoomBlank
    \/ WarRoomDone
    \/ WarRoomReview
    \/ WarRoomQuit
    \/ WarRoomStream
    \/ StreamReply
    \/ TriggerDailyReview
    \/ ClearPrompt
    \/ RunAuditor
    \/ AuditorSave
    \/ BridgeDone
    \/ BridgeReview
    \/ BridgeStream
    \/ BridgeReply
    \/ BridgeNoManager
    \/ BridgeNotText
    \/ PluginInit
    \/ CallAddLogEntry
    \/ CallFormatLogsForPrompt
    \/ CallGetDailySummaryForAudit
    \/ LogCallReturn

SpecLog == InitLogSpec /\ [][NextLog]_vars

\* ------------------------------------------------------------------------
\* add_log_entry called by two callers at the same time (two messages
\* handled by the chat bridge host, or the bridge and the war room)
\* ------------------------------------------------------------------------
\* DailyLogManager takes no lock, so the steps of two calls interleave: a
\* call names today's file and reads its list, then appends its entry to
\* the list it has read and writes that list back.

\* the contents the two callers log
WriterContents == {<<"x">>, <<"y">>}

\* two callers share the log directory
InitWriters ==
    /\ pc = "writers"
    /\ inbox_id = "inbox"
    /\ goal = <<>>
    /\ prompt = NoPrompt
    /\ llm_calls = 0
    /\ requests = <<>>
    /\ llm_reply = NoReply
    /\ plan = NoResult
    /\ confirm = NotAsked
    /\ posted = <<>>
    /\ results = <<>>
    /\ parent_id = ""
    /\ idx = 0
    /\ success_count = 0
    /\ out = "none"
    /\ InitLog
    /\ InitPlugin
    /\ InitDida
    /\ InitPM

\* the calls that have read the list and not yet written it
InFlight == {w \in Writers : writers[w].at = "read"}

\* add_log_entry, first half: log_file is named and the list is loaded
WriterRead(w) ==
    /\ pc = "writers"
    /\ writers[w].at = "idle"
    /\ written + Cardinality(InFlight) < MaxLog
    /\ \E content \in WriterContents :
          writers' = [writers EXCEPT ![w] =
                         [at |-> "read", day |-> today,
                          log_type |-> "user_input", content |-> content,
                          logs |-> GetTodayLogs(files, today)]]
    /\ UNCHANGED <<pc, inbox_id, confirm, out, today, files, written, said,
                   rendered, chats, ai_reply, shown, returned>>
    /\ UNCHANGED <<planner_vars, plugin_vars, dida_vars, pm_vars>>

\* add_log_entry, second half: the entry is appended to the loaded list and
\* the list is dumped over the file
WriterWrite(w) ==
    /\ pc = "writers"
    /\ writers[w].at = "read"
    /\ files' = [files EXCEPT ![writers[w].day] =
                    Append(writers[w].logs,
                           LogEntry(writers[w].log_type, writers[w].content,
                                    writers[w].day, written))]
    /\ written' = written + 1
    /\ writers' = [writers EXCEPT ![w] = Idle]
    /\ UNCHANGED <<pc, inbox_id, confirm, out, today, said, rendered, chats,
                   ai_reply, shown, returned>>
    /\ UNCHANGED <<planner_vars, plugin_vars, dida_vars, pm_vars>>

NextWriters ==
    \/ \E w \in Writers : WriterRead(w)
    \/ \E w \in Writers : WriterWrite(w)

SpecWriters == InitWriters /\ [][NextWriters]_vars

\* ------------------------------------------------------------------------
\* The task-service adapters: run_dashboard under the menu loop, and direct
\* calls of get_inbox_tasks, get_project_tasks and get_all_projects
\* ------------------------------------------------------------------------

InitDash ==
    /\ pc \in {"menu", "dida"}
    /\ inbox_id \in InboxIds
    /\ goal = <<>>
    /\ prompt = NoPrompt
    /\ llm_calls = 0
    /\ requests = <<>>
    /\ llm_reply = NoReply
    /\ plan = NoResult
    /\ confirm = NotAsked
    /\ posted = <<>>
    /\ results = <<>>
    /\ parent_id = ""
    /\ idx = 0
    /\ success_count = 0
    /\ out = "none"
    /\ InitLog
    /\ InitPlugin
    /\ InitDida
    /\ InitPM

\* choice '3': run_dashboard is entered
MenuDashboard ==
    /\ pc = "menu"
    /\ pc' = "dash_projects"
    /\ out' = "collecting"
    /\ gets' = <<>>
    /\ projects' = NoFetch
    /\ project_tasks' = <<>>
    /\ UNCHANGED <<inbox_id, confirm, fetched, create_call>>
    /\ UNCHANGED <<planner_vars, log_vars, plugin_vars, pm_vars>>

\* step 1 of get_active_tasks_from_all_projects: get_all_projects. Its
\* RequestException is wrapped twice into RuntimeError and run_dashboard
\* prints the failure; so does the KeyError 'active_tasks' that the
\* no-projects result gives prepare_dashboard_data_for_llm
DashGetAllProjects ==
    /\ pc = "dash_projects"
    /\ \E response \in ListingResponses :
          /\ gets' = Append(gets, Get("get_all_projects", 0, response))
          /\ projects' = GetAllProjects(response)
    /\ IF projects'.status = "raised" \/ projects'.items = <<>>
       THEN pc' = "menu" /\ out' = "dashboard_failed"
       ELSE pc' = "dash_batch" /\ out' = "fetching"
    /\ UNCHANGED <<inbox_id, confirm, fetched, create_call, project_tasks>>
    /\ UNCHANGED <<planner_vars, log_vars, plugin_vars, pm_vars>>

\* one round of get_project_tasks_batch; after the last one the tasks are
\* flattened and filtered, and without active tasks run_dashboard returns
DashGetProjectTasks ==
    /\ pc = "dash_batch"
    /\ LET i == Len(project_tasks) + 1
           project_id == projects.items[i]
       IN  /\ \E response \in TaskResponses :
                 /\ gets' = Append(gets, Get("get_project_tasks",
                                             project_id, response))
                 /\ project_tasks' =
                       Append(project_tasks,
                              BatchEntry(GetProjectTasks(response)))
           /\ IF i < Len(projects.items)
              THEN pc' = "dash_batch" /\ out' = "fetching"
              ELSE IF ActiveTasks(AllTasks(project_tasks')) = <<>>
              THEN pc' = "menu" /\ out' = "no_active_tasks"
              ELSE pc' = "dash_report" /\ out' = "collected"
    /\ UNCHANGED <<inbox_id, confirm, fetched, create_call, projects>>
    /\ UNCHANGED <<planner_vars, log_vars, plugin_vars, pm_vars>>

\* the report is requested from the model and shown, and saved on 'y'
DashReport ==
    /\ pc = "dash_report"
    /\ pc' = "menu"
    /\ \E chat_raises \in BOOLEAN, answer \in Answers :
          out' = IF chat_raises THEN "dashboard_failed"
                 ELSE IF Confirmed(answer) THEN "report_saved"
                 ELSE "report_not_saved"
    /\ UNCHANGED <<inbox_id, confirm>>
    /\ UNCHANGED <<planner_vars, log_vars, plugin_vars, dida_vars, pm_vars>>

\* DidaClient.get_inbox_tasks()
CallGetInboxTasks ==
    /\ pc = "dida"
    /\ \E response \in TaskResponses :
          /\ gets' = IF inbox_id = "" THEN <<>>
                     ELSE <<Get("get_inbox_tasks", 0, response)>>
          /\ fetched' = GetInboxTasks(inbox_id, response)
    /\ pc' = "dida_ret"
    /\ out' = "tasks_returned"
    /\ UNCHANGED <<inbox_id, confirm, create_call, projects, project_tasks>>
    /\ UNCHANGED <<planner_vars, log_vars, plugin_vars, pm_vars>>

\* DidaClient.get_project_tasks(project_id)
CallGetProjectTasks ==
    /\ pc = "dida"
    /\ \E project_id \in 1..MaxProjects, response \in TaskResponses :
          /\ gets' = <<Get("get_project_tasks", project_id, response)>>
          /\ fetched' = GetProjectTasks(response)
    /\ pc' = "dida_ret"
    /\ out' = IF fetched'.status = "ok" THEN "tasks_returned"
              ELSE "call_raised"
    /\ UNCHANGED <<inbox_id, confirm, create_call, projects, project_tasks>>
    /\ UNCHANGED <<planner_vars, log_vars, plugin_vars, pm_vars>>

\* DidaClient.get_all_projects()
CallGetAllProjects ==
    /\ pc = "dida"
    /\ \E response \in ListingResponses :
          /\ gets' = <<Get("get_all_projects", 0, response)>>
          /\ fetched' = GetAllProjects(response)
    /\ pc' = "dida_ret"
    /\ out' = IF fetched'.status = "ok" THEN "projects_returned"
              ELSE "call_raised"
    /\ UNCHANGED <<inbox_id, confirm, create_call, projects, project_tasks>>
    /\ UNCHANGED <<planner_vars, log_vars, plugin_vars, pm_vars>>

\* DidaClient.create_task(title, due_date=due_date): ValueError before
\* any request, None without a project id, else POST /task, which gives
\* the new task or, on a RequestException, None
CallCreateTask ==
    /\ pc = "dida"
    /\ \E title \in CallTitles, due_date \in CallDueDates,
          post_raises \in BOOLEAN :
          LET check == CreateTaskDueCheck(title, due_date, inbox_id)
          IN  /\ check # "post" => ~post_raises
              /\ posted' = IF check = "post"
                           THEN <<DuePayload(title, due_date)>>
                           ELSE <<>>
              /\ create_call' = [title |-> title, due_date |-> due_date,
                             result |-> IF check # "post" THEN check
                                        ELSE IF post_raises THEN "None"
                                        ELSE "task"]
    /\ pc' = "dida_ret"
    /\ out' = IF create_call'.result = "ValueError" THEN "call_raised"
              ELSE "task_returned"
    /\ UNCHANGED <<inbox_id, confirm, gets, fetched, projects, project_tasks>>
    /\ UNCHANGED <<goal, prompt, llm_calls, requests, llm_reply, plan,
                   results, parent_id, idx, success_count>>
    /\ UNCHANGED <<log_vars, plugin_vars, pm_vars>>

\* the caller goes on to its next call
DidaReturn ==
    /\ pc = "dida_ret"
    /\ pc' = "dida"
    /\ out' = "none"
    /\ gets' = <<>>
    /\ fetched' = NoFetch
    /\ create_call' = NotCreated
    /\ posted' = <<>>
    /\ UNCHANGED <<inbox_id, confirm, projects, project_tasks>>
    /\ UNCHANGED <<goal, prompt, llm_calls, requests, llm_reply, plan,
                   results, parent_id, idx, success_count>>
    /\ UNCHANGED <<log_vars, plugin_vars, pm_vars>>

NextDash ==
    \/ MenuDashboard
    \/ DashGetAllProjects
    \/ DashGetProjectTasks
    \/ DashReport
    \/ CallGetInboxTasks
    \/ CallGetProjectTasks
    \/ CallGetAllProjects
    \/ CallCreateTask
    \/ DidaReturn

SpecDash == InitDash /\ [][NextDash]_vars

\* ------------------------------------------------------------------------
\* Direct calls of the render operations of one PromptManager
\* ------------------------------------------------------------------------

\* (a render that splices the career field into the first prompt only)
Render_FirstCallOnly(op, args) ==
    [planner |-> IF op = "planner"
                 THEN RenderPlannerPrompt(args.goal, args.context)
                 ELSE NoPrompt,
     prompt |-> IF op = "stream"
                THEN RenderStreamResponsePrompt(args.user_input,
                                                args.recent_logs)
                ELSE IF op = "auditor"
                THEN RenderAuditorPrompt(args.tasks_data, args.daily_logs,
                                         args.user_input)
                ELSE NoRendered,
     dashboard |-> IF op = "dashboard"
                   THEN RenderDashboardPrompt(args.summary,
                                              args.task_list_str)
                   ELSE NoDashboardPrompt,
     core_learning |-> IF op \in {"stream", "auditor", "dashboard"}
                       THEN user_context.core_learning ELSE "",
     side_hustle |-> IF op \in {"auditor", "dashboard"}
                     THEN user_context.side_hustle ELSE "",
     career_field |-> IF op = "auditor" /\ calls = <<>>
                      THEN user_context.career_field ELSE ""]

\* the string a render operation returns: its template with the arguments
\* spliced in, and with the fields of self.context that the template names
Render(op, args) ==
    [planner |-> IF op = "planner"
                 THEN RenderPlannerPrompt(args.goal, args.context)
                 ELSE NoPrompt,
     prompt |-> IF op = "stream"
                THEN RenderStreamResponsePrompt(args.user_input,
                                                args.recent_logs)
                ELSE IF op = "auditor"
                THEN RenderAuditorPrompt(args.tasks_data, args.daily_logs,
                                         args.user_input)
                ELSE NoRendered,
     dashboard |-> IF op = "dashboard"
                   THEN RenderDashboardPrompt(args.summary,
                                              args.task_list_str)
                   ELSE NoDashboardPrompt,
     core_learning |-> IF op \in {"stream", "auditor", "dashboard"}
                       THEN user_context.core_learning ELSE "",
     side_hustle |-> IF op \in {"auditor", "dashboard"}
                     THEN user_context.side_hustle ELSE "",
     career_field |-> IF op = "auditor"
                      THEN user_context.career_field ELSE ""]

\* a caller holds a PromptManager built with some UserContext
InitRender ==
    /\ pc = "pm"
    /\ inbox_id = "inbox"
    /\ goal = <<>>
    /\ prompt = NoPrompt
    /\ llm_calls = 0
    /\ requests = <<>>
    /\ llm_reply = NoReply
    /\ plan = NoResult
    /\ confirm = NotAsked
    /\ posted = <<>>
    /\ results = <<>>
    /\ parent_id = ""
    /\ idx = 0
    /\ success_count = 0
    /\ out = "none"
    /\ InitLog
    /\ InitPlugin
    /\ InitDida
    /\ user_context \in UserContexts
    /\ calls = <<>>

\* the call is made and its result kept with the operation, the arguments
\* and the UserContext it was made under
RenderCall(op, args) ==
    /\ pc = "pm"
    /\ Len(calls) < MaxCalls
    /\ calls' = Append(calls, [op |-> op, args |-> args,
                               context |-> user_context,
                               text |-> Render(op, args)])
    /\ UNCHANGED <<pc, inbox_id, confirm, out, user_context>>
    /\ UNCHANGED <<planner_vars, log_vars, plugin_vars, dida_vars>>

PMRenderPlannerPrompt == \E args \in PlannerArgs : RenderCall("planner", args)

PMRenderStreamResponsePrompt ==
    \E args \in StreamArgs : RenderCall("stream", args)

PMRenderAuditorPrompt == \E args \in AuditorArgs : RenderCall("auditor", args)

PMRenderDashboardPrompt ==
    \E args \in DashboardArgs : RenderCall("dashboard", args)

NextRender ==
    \/ PMRenderPlannerPrompt
    \/ PMRenderStreamResponsePrompt
    \/ PMRenderAuditorPrompt
    \/ PMRenderDashboardPrompt

SpecRender == InitRender /\ [][NextRender]_vars

\* ------------------------------------------------------------------------
\* Properties of plan parsing
\* ------------------------------------------------------------------------

\* a reply has been parsed: plan is the result of parsing llm_reply, by
\* LLMClient.generate_task_plan when ViaLLMClient, else by
\* AIProjectManager._generate_task_plan_with_pm
Parsed == llm_reply.top # "none"
ViaLLMClient == pc = "api_ret"

\* the reply is a JSON object whose `tasks` is an array
HasTaskArray(reply) == reply.top = "obj" /\ reply.tasks_k = "list"

\* the element is an object with a non-empty title
HasTitle(e) ==
    /\ e.k = "obj"
    /\ \/ e.title.k = "str" /\ e.title.s # <<>>
       \/ e.title.k = "int" /\ e.title.n # 0

\* the element is a valid item: an object with a non-empty title whose
\* day_offset is an integer or absent
ValidItem(e) == HasTitle(e) /\ e.day_offset.k \in {"absent", "int"}

\* the day_offset of the element cannot be made an integer
Uncoercible(e) == e.day_offset.k \in {"str", "null"}

\* title and content of an item as text, trimmed
ItemTitle(e) ==
    IF e.title.k = "str" THEN PyStrip(e.title.s) ELSE PyStrInt(e.title.n)
ItemContent(e) ==
    IF e.content.k = "absent" THEN <<>> ELSE PyStrip(e.content.s)

\* the elements of the array that have a non-empty title, in array order
Titled(tasks) == SelectSeq(tasks, HasTitle)

\* 0-based positions of the elements without one, in array order
RECURSIVE UntitledPositions(_, _)
UntitledPositions(tasks, i) ==
    IF i > Len(tasks) THEN <<>>
    ELSE IF HasTitle(tasks[i]) THEN UntitledPositions(tasks, i + 1)
    ELSE <<i - 1>> \o UntitledPositions(tasks, i + 1)

C2_LenientPerElement ==
    (Parsed /\ HasTaskArray(llm_reply))
    => LET kept == Titled(llm_reply.tasks)
       IN  /\ plan.status # "ok" => \E i \in 1..Len(kept) : Uncoercible(kept[i])
           /\ plan.status = "ok" =>
                 /\ Len(plan.tasks) = Len(kept)
                 /\ \A i \in 1..Len(kept) :
                       /\ plan.tasks[i].title = ItemTitle(kept[i])
                       /\ plan.tasks[i].content = ItemContent(kept[i])
                 /\ SelectSeq(plan.warned, LAMBDA w : w >= 0)
                       = UntitledPositions(llm_reply.tasks, 1)

\* an object without title, whose day_offset is no number, was passed over
\* and the item after it returned
C2_Witness ==
    /\ Parsed
    /\ Len(llm_reply.tasks) = 2
    /\ llm_reply.tasks[1].k = "obj"
    /\ llm_reply.tasks[1].title = Absent
    /\ llm_reply.tasks[1].day_offset = JStr(<<"x">>)
    /\ HasTitle(llm_reply.tasks[2])
    /\ plan.status = "ok"
    /\ Len(plan.tasks) = 1
    /\ plan.warned = <<0>>

\* C3 as stated: a reply that is no JSON object, or has no `tasks` array,
\* fails to parse and never yields a list.
C3_NoTasksArrayFails ==
    (Parsed /\ ~HasTaskArray(llm_reply)) => plan.status # "ok"

\* C3 as amended: a reply that is no JSON (object), or whose `tasks` is
\* present and no array, fails to parse; an object without the key `tasks`
\* is parsed as if the array were empty, and the empty list is returned.
C3_NoObjectOrBadTasksFails ==
    Parsed =>
       /\ (llm_reply.top # "obj"
           \/ llm_reply.tasks_k \notin {"absent", "list"})
          => /\ plan.status \in {"RuntimeError", "JSONDecodeError"}
             /\ plan.tasks = <<>>
       /\ (llm_reply.top = "obj" /\ llm_reply.tasks_k = "absent")
          => plan.status = "ok" /\ plan.tasks = <<>>

\* run_planner got an object whose `tasks` is null and reported the failure
C3_Witness ==
    /\ pc = "menu"
    /\ llm_reply.top = "obj"
    /\ llm_reply.tasks_k = "null"
    /\ plan.status = "RuntimeError"
    /\ out = "planning_failed"

\* C4 as stated: an item with a title whose day_offset cannot be made an
\* integer is kept with day_offset 0, and the parse does not fail.
C4_UncoercibleOffsetIsZero ==
    (Parsed /\ HasTaskArray(llm_reply))
    => LET kept == Titled(llm_reply.tasks)
       IN  /\ plan.status = "ok"
           /\ Len(plan.tasks) = Len(kept)
           /\ \A i \in 1..Len(kept) :
                 Uncoercible(kept[i]) => plan.tasks[i].day_offset = 0

\* C5 as stated: every record returned has a title that is non-empty after
\* trimming.
C5_TitlesNonBlank ==
    plan.status = "ok" =>
       \A i \in 1..Len(plan.tasks) : PyStrip(plan.tasks[i].title) # <<>>

\* C6 as stated: every record returned has a day_offset >= 0.
C6_OffsetsNonNegative ==
    plan.status = "ok" =>
       \A i \in 1..Len(plan.tasks) : plan.tasks[i].day_offset >= 0

\* the result of the other planning entry point for the reply parsed
OtherEntryPoint ==
    IF ViaLLMClient THEN PMParsePlan(llm_reply) ELSE LLMParsePlan(llm_reply)

\* C9 as stated: for every reply both planning entry points return the same
\* list or fail with the same kind of error.
C9_SameResultOrSameError ==
    Parsed =>
       /\ plan.status = OtherEntryPoint.status
       /\ plan.tasks = OtherEntryPoint.tasks

\* C9 as amended: for every reply both entry points return the same list or
\* both fail; the kind of error is not the same: main.py raises RuntimeError
\* for every failure, llm_client.py raises json.JSONDecodeError for a reply
\* that is no JSON object or whose `tasks` is no array, and RuntimeError
\* otherwise.
C9_SameResultOrBothFail ==
    Parsed =>
       LET pm == IF ViaLLMClient THEN OtherEntryPoint ELSE plan
           llm == IF ViaLLMClient THEN plan ELSE OtherEntryPoint
       IN  /\ (pm.status = "ok") <=> (llm.status = "ok")
           /\ pm.tasks = llm.tasks
           /\ pm.status # "ok" => pm.status = "RuntimeError"
           /\ llm.status # "ok" =>
                 llm.status = IF HasTaskArray(llm_reply)
                                 \/ (llm_reply.top = "obj"
                                     /\ llm_reply.tasks_k = "absent")
                              THEN "RuntimeError" ELSE "JSONDecodeError"

\* generate_task_plan raised json.JSONDecodeError for a reply for which
\* _generate_task_plan_with_pm raises RuntimeError
C9_Witness ==
    /\ ViaLLMClient
    /\ Parsed
    /\ plan.status = "JSONDecodeError"
    /\ PMParsePlan(llm_reply).status = "RuntimeError"

\* ------------------------------------------------------------------------
\* Properties of the planner prompt and of run_planner
\* ------------------------------------------------------------------------

\* C7 as stated: no planner prompt is produced for a goal that is empty or
\* blank after trimming (rendering raises instead).
C7_NoPromptForBlankGoal ==
    ~(prompt.template = "planner" /\ PyStrip(prompt.goal) = <<>>)

\* run_planner is running or has returned to the menu loop
InMain == pc \notin {"api", "api_ret"}

\* C8: when parsing yields the empty list, run_planner reports that no
\* tasks were generated and is back at the menu: it has not crashed, has not
\* asked for confirmation and has sent no task-creation request.
C8_EmptyPlanIsNoPlan ==
    (InMain /\ plan.status = "ok" /\ plan.tasks = <<>>)
    => /\ pc \in {"menu", "exited"}
       /\ out = "no_tasks"
       /\ ~confirm.asked
       /\ posted = <<>>
       /\ results = <<>>

\* a reply whose only element was dropped brought run_planner to the menu
C8_Witness ==
    /\ pc = "menu"
    /\ plan.status = "ok"
    /\ plan.tasks = <<>>
    /\ HasTaskArray(llm_reply)
    /\ Len(llm_reply.tasks) = 1
    /\ out = "no_tasks"

\* C10: requests to create tasks are sent only after the confirmation; the
\* first is the parent task of the goal, without parentId; the others are
\* the subtasks in plan order, each with the id returned for the parent as
\* parentId, and are sent only if the parent was created; a run that
\* completes has requested every subtask.
C10_ParentThenSubtasksInOrder ==
    /\ posted # <<>> =>
          /\ confirm.asked /\ confirm.answer = <<"y">>
          /\ posted[1].title = ParentTitle(goal)
          /\ posted[1].parentId = ""
          /\ Len(posted) = Len(results)
          /\ Len(posted) <= Len(plan.tasks) + 1
          /\ \A j \in 2..Len(posted) :
                /\ results[1]
                /\ parent_id \in TaskIds
                /\ posted[j].parentId = parent_id
                /\ posted[j].title = plan.tasks[j - 1].title
                /\ posted[j].content = plan.tasks[j - 1].content
                /\ posted[j].dueDate = plan.tasks[j - 1].day_offset
    /\ out = "parent_failed" => Len(posted) <= 1 /\ pc \in {"menu", "exited"}
    /\ out = "complete" => Len(posted) = Len(plan.tasks) + 1

\* a plan of two different subtasks has been written under parent "t2"
C10_Witness ==
    /\ out = "complete"
    /\ Len(posted) = 3
    /\ posted[2].title # posted[3].title
    /\ posted[2].dueDate # posted[3].dueDate
    /\ posted[3].parentId = "t2"
    /\ results = <<TRUE, FALSE, TRUE>>

\* ------------------------------------------------------------------------
\* Properties of the subtask loop and of the menu loop
\* ------------------------------------------------------------------------

\* the number of TRUE among r[1..n]
RECURSIVE CountCreated(_, _)
CountCreated(r, n) ==
    IF n = 0 THEN 0
    ELSE CountCreated(r, n - 1) + (IF r[n] THEN 1 ELSE 0)

\* the parent task of this run was created and the subtask loop is over
LoopLeft == parent_id # "" /\ pc # "subtasks"

\* C11 as stated: once the parent task exists, the subtask loop ends only
\* after create_task was called for every subtask of the plan, whatever
\* failed on the way, and the success count that is reported is the number
\* of subtasks that were created.
C11_EverySubtaskAttempted ==
    LoopLeft =>
        /\ idx = Len(plan.tasks) + 1
        /\ Len(posted) = Len(plan.tasks) + 1
        /\ out = "complete"
        /\ success_count = CountCreated(results, Len(results))
                           - (IF results[1] THEN 1 ELSE 0)

\* C12 as stated: a failure inside a menu operation brings the program back
\* to the menu; the process never ends on an error, only by the exit choice.
C12_FailuresReturnToMenu ==
    pc # "crashed"

\* ------------------------------------------------------------------------
\* Properties of the daily log
\* ------------------------------------------------------------------------

\* list a is the beginning of list b
IsPrefix(a, b) == Len(a) <= Len(b) /\ SubSeq(b, 1, Len(a)) = a

\* the number of entries stored in all files
RECURSIVE StoredUpTo(_, _)
StoredUpTo(fs, d) ==
    IF d < 0 THEN 0 ELSE Len(fs[d]) + StoredUpTo(fs, d - 1)
Stored(fs) == StoredUpTo(fs, MaxDay)

\* the step is the answer to the clear prompt
ClearStep == pc = "clear_prompt"

\* C13: every step in which add_log_entry is called leaves each stored
\* list as the beginning of the list stored afterwards, adds one entry per
\* call, all at the end of today's list, and the last one carries the time
\* of the last call; only the answer to the clear prompt is exempt (C14).
C13_AppendOnly ==
    [][~ClearStep =>
          /\ \A d \in Days : IsPrefix(files[d], files'[d])
          /\ \A d \in Days \ {today} : files'[d] = files[d]
          /\ Len(files'[today]) = Len(files[today]) + (written' - written)
          /\ written' > written =>
                files'[today][Len(files'[today])].timestamp
                   = IsoFormat(today, written' - 1)]_vars

\* three calls of three kinds have built today's list
C13_Witness ==
    /\ Len(files[today]) = 3
    /\ files[today][1].type = "user_input"
    /\ files[today][2].type = "ai_response"
    /\ files[today][3].type = "task_completion"
    /\ files[today][3].content = DoneLogPrefix \o <<"x">>

\* C14: the number of stored entries goes down only in the step that
\* answers 'y' to the clear prompt, which is asked only after the report of
\* a daily review was generated.
C14_ClearedOnlyOnYes ==
    [][(\E d \in Days : Len(files'[d]) < Len(files[d])) =>
          /\ pc = "clear_prompt"
          /\ out = "review_saved"
          /\ rendered.template = "auditor"
          /\ Len(chats) = 1
          /\ confirm'.asked
          /\ confirm'.answer = <<"y">>
          /\ files'[today] = <<>>
          /\ \A d \in Days \ {today} : files'[d] = files[d]]_vars

\* a list of two entries was removed by the answer 'y'
C14_Witness ==
    /\ out = "logs_cleared"
    /\ confirm.answer = <<"y">>
    /\ written >= 2
    /\ \A d \in Days : files[d] = <<>>

\* C15 as stated: when no call of add_log_entry is in progress, the entry
\* of every call made so far is in today's list, however the steps of two
\* calls were interleaved.
C15_ConcurrentAppendsKeepAll ==
    (pc = "writers" /\ InFlight = {}) =>
        \A k \in 0..(written - 1) :
            \E i \in 1..Len(files[today]) :
                files[today][i].timestamp = IsoFormat(today, k)

\* ------------------------------------------------------------------------
\* Properties of the stream turn and of the review prompt
\* ------------------------------------------------------------------------

\* a stream reply has been delivered by the war room or by the bridge
Delivered == ai_reply.got /\ pc \in {"warroom", "bridge"}

\* the reply without the marker and without its phrase
Guidance(text) ==
    PyStrip(Remove(Remove(text, AuditMarker), AuditBoilerplate))

\* C16 as stated: a delivered reply that holds the marker is delivered with
\* the flag and as its text without marker and phrase, printed unless
\* nothing is left; a reply without the marker is delivered as it is,
\* without the flag.
C16_MarkerFlaggedAndCleaned ==
    Delivered =>
        IF Contains(ai_reply.text, AuditMarker)
        THEN /\ shown.flag
             /\ shown.text = Guidance(ai_reply.text)
             /\ Guidance(ai_reply.text) # <<>> => shown.printed
        ELSE /\ ~shown.flag
             /\ shown.printed
             /\ shown.text = ai_reply.text

\* the input of the turn is a "/done ..." or a review command
IsCommand(input) ==
    \/ StartsWith(input, <<"/", "d", "o", "n", "e">>)
    \/ input = <<"/", "r", "e", "v", "i", "e", "w">>
    \/ input = <<"/", "U+603B", "U+7ED3", "U+4ECA", "U+5929">>

\* C17: in a turn whose input is a "/done ..." or a review command, on
\* either surface, no stream prompt is rendered, no stream chat completion
\* is requested and no stream reply is received.
C17_CommandsBypassStream ==
    IsCommand(said) =>
        /\ rendered.template # "stream"
        /\ \A i \in 1..Len(chats) :
              /\ chats[i].template # "stream"
              /\ chats[i].max_tokens \notin {200, 300}
        /\ ~ai_reply.got
        /\ pc \notin {"stream_call", "bridge_call"}

\* "/review" in the war room has requested the report and nothing else
C17_Witness ==
    /\ pc = "clear_prompt"
    /\ said = <<"/", "r", "e", "v", "i", "e", "w">>
    /\ rendered.template = "auditor"
    /\ Len(chats) = 1
    /\ files[today] # <<>>

\* the log section the review prompt is to have for the entries supplied:
\* nothing for none, else the header and a line "[HH:MM:SS] content" per
\* entry, the time being characters 12 to 19 of the ISO timestamp
RECURSIVE SectionLines(_)
SectionLines(logs) ==
    IF logs = <<>> THEN <<>>
    ELSE <<"\n", " ", " ", "[">> \o SubSeq(Head(logs).timestamp, 12, 19)
         \o <<"]", " ">> \o Head(logs).content \o SectionLines(Tail(logs))

ExpectedSection(logs) ==
    IF logs = <<>> THEN <<>>
    ELSE <<"\n", "*", " ", "*", "*", "U+5168", "U+5929", "U+8BB0",
           "U+5F55", "*", "*", ":">> \o SectionLines(logs)

\* the entries passed as daily_logs by the step that renders the review
\* prompt: today's list, or none when the auditor's user declined them
Supplied ==
    IF pc = "review" \/ confirm'.answer = <<"y">> THEN files[today]
    ELSE <<>>

\* the step is one of _trigger_daily_review or of run_auditor
Renders ==
    \/ pc = "review"
    \/ pc = "menu" /\ pc' \in {"menu", "save_prompt"} /\ today' = today

\* C18: every review prompt rendered by the daily review or by the auditor
\* has as its log section exactly the expected section of the entries
\* supplied: empty (no header, no placeholder) when none are supplied.
C18_LogSectionIffEntries ==
    [][(Renders /\ rendered'.template = "auditor") =>
          /\ rendered'.daily_logs_summary = ExpectedSection(Supplied)
          /\ Supplied = <<>> => rendered'.daily_logs_summary = <<>>]_vars

\* the daily review has rendered a section of three lines
C18_Witness ==
    /\ pc = "clear_prompt"
    /\ Len(files[today]) = 3
    /\ rendered.template = "auditor"
    /\ rendered.daily_logs_summary = ExpectedSection(files[today])
    /\ Len(rendered.daily_logs_summary) > 60

\* C19 as stated: a review prompt is never rendered with more than ten
\* pending titles.
C19_AtMostTenPending ==
    rendered.template = "auditor" => Len(rendered.pending) <= 10

\* the placeholder text of an empty log
Placeholder ==
    <<"U+4ECA", "U+5929", "U+5C1A", "U+65E0", "U+8BB0", "U+5F55">>

\* a formatter has returned to its caller
FormatterReturned ==
    /\ pc = "logapi_ret"
    /\ out \in {"format_logs_for_prompt", "get_daily_summary_for_audit"}

\* C20: a formatter called while today's list is empty returns the
\* placeholder, and returns it for no other list.
C20_EmptyLogPlaceholder ==
    FormatterReturned => (files[today] = <<>> <=> returned = Placeholder)

\* after midnight get_daily_summary_for_audit found today's list empty
\* although yesterday's is not
C20_Witness ==
    /\ pc = "logapi_ret"
    /\ out = "get_daily_summary_for_audit"
    /\ today = 1
    /\ files[0] # <<>>
    /\ files[1] = <<>>
    /\ returned = Placeholder

\* ------------------------------------------------------------------------
\* Claims C21..C30
\* ------------------------------------------------------------------------

\* a planning call has returned or raised
PlanningDone == plan.status # "none"

\* the chat service rejected the request for a structured reply
Unsupported ==
    /\ requests # <<>>
    /\ requests[1].response_format
    /\ requests[1].raised

\* C21: when the request for a structured (JSON) reply is rejected, the
\* planning call - whichever entry point made it - makes exactly one more
\* request, for free text, and parses that reply with the same validation;
\* no planning call makes more than one fallback request.
C21_FallbackToFreeText ==
    PlanningDone =>
        /\ Len(requests) <= 2
        /\ Unsupported =>
              /\ Len(requests) = 2
              /\ ~requests[2].response_format
              /\ ~requests[2].raised =>
                    plan = IF ViaLLMClient THEN LLMParsePlan(llm_reply)
                           ELSE PMParsePlan(llm_reply)

\* get_active_tasks_from_all_projects has listed projects and has left the
\* batch loop
BatchDone ==
    /\ projects.status = "ok"
    /\ projects.items # <<>>
    /\ pc \notin {"dash_projects", "dash_batch"}

\* C22: when its request fails, get_inbox_tasks and get_project_tasks
\* return the empty list and get_all_projects raises; in the dashboard a
\* failed listing ends the aggregation before any project is fetched, and
\* a failed fetch of one project gives that project the empty list while
\* every listed project is still fetched, once and in order.
C22_TransportFailuresPerAdapter ==
    /\ (pc = "dida_ret" /\ gets # <<>> /\ gets[1].raised) =>
          IF gets[1].adapter = "get_all_projects"
          THEN fetched.status = "raised"
          ELSE fetched = [status |-> "ok", items |-> <<>>]
    /\ projects.status = "raised" =>
          /\ Len(gets) = 1
          /\ project_tasks = <<>>
          /\ pc = "menu" /\ out = "dashboard_failed"
    /\ \A k \in 1..Len(project_tasks) :
          /\ gets[k + 1].adapter = "get_project_tasks"
          /\ gets[k + 1].project = projects.items[k]
          /\ project_tasks[k] =
                IF gets[k + 1].raised THEN <<>> ELSE gets[k + 1].items
    /\ BatchDone =>
          /\ Len(project_tasks) = Len(projects.items)
          /\ Len(gets) = Len(projects.items) + 1

\* the fetch of the first project failed, the second was fetched and its
\* tasks are in the aggregation
C22_Witness ==
    /\ BatchDone
    /\ Len(gets) = 3
    /\ gets[2].raised
    /\ project_tasks = <<(<<>>), (<<2, 0>>)>>
    /\ pc = "dash_report"

\* a direct create_task call has returned or raised
CreateReturned == pc = "dida_ret" /\ create_call.result # "none"

\* C23: create_task raises a validation error for a title that is blank
\* after trimming, and for a due date that is not of the form
\* YYYY-MM-DDTHH:MM:SS+HH:MM or -HH:MM, and has then sent no request.
C23_InvalidArgumentsRejected ==
    (/\ CreateReturned
     /\ \/ PyStrip(create_call.title) = <<>>
        \/ create_call.due_date # <<>> /\ ~IsIsoFormat(create_call.due_date))
        => create_call.result = "ValueError" /\ posted = <<>>

\* calls of the same operation with the same arguments under the same
\* UserContext returned the same string
SameCallsSameText ==
    \A i, j \in 1..Len(calls) :
        (/\ calls[i].op = calls[j].op
         /\ calls[i].args = calls[j].args
         /\ calls[i].context = calls[j].context)
            => calls[i].text = calls[j].text

BridgeReturned ==
    /\ pc = "bridge"
    /\ out \in {"done_reply", "returned_none", "reply", "error_reply"}

\* C25: process_wechat_message returns a text for every message - the
\* acknowledgement of /done, the report of /review, the reply or the error
\* text otherwise - and never a missing value.
C25_AlwaysReturnsText == BridgeReturned => shown.printed

\* the answer run_planner compares with 'y'
AnsweredYes == confirm.asked /\ confirm.answer = <<"y">>

\* C26: the planner sends a task-creation request, for the parent or for
\* a subtask, only after the answer to the confirmation prompt was 'y'
\* once trimmed and lower-cased; after any other answer the run is
\* cancelled and has sent no request.
C26_WritesOnlyAfterYes ==
    /\ (posted # <<>> \/ pc \in {"parent", "subtasks"}) => AnsweredYes
    /\ (confirm.asked /\ ~AnsweredYes) =>
          /\ posted = <<>>
          /\ pc \in {"menu", "exited"} /\ out = "cancelled"

\* the parent and a subtask were sent after the answer 'y'
C26_Witness ==
    /\ AnsweredYes
    /\ Len(posted) >= 2
    /\ pc = "menu"

\* the entries of all log files, oldest day first
RECURSIVE EntriesUpTo(_, _)
EntriesUpTo(fs, d) ==
    IF d < 0 THEN <<>> ELSE EntriesUpTo(fs, d - 1) \o fs[d]
AllEntries(fs) == EntriesUpTo(fs, MaxDay)
LastEntry(fs) == AllEntries(fs)[Len(AllEntries(fs))]

\* the steps of _process_stream_input: up to the chat call, and from it on
StreamLogged == pc = "warroom" /\ pc' = "stream_call"
StreamAnswered == pc = "stream_call" /\ pc' = "warroom"

\* the entries the step has added
AddedEntries ==
    SubSeq(AllEntries(files'), Len(AllEntries(files)) + 1,
           Len(AllEntries(files')))

\* C27: for an ordinary war-room input the user_input entry is appended
\* before the chat call is made; the ai_response entry is appended only
\* when that call has returned, directly after that user_input entry; when
\* the call fails the log is left as it is, with the user_input entry and
\* no ai_response, and the loop goes back to reading input.
C27_InputLoggedBeforeReply ==
    [][/\ StreamLogged =>
             /\ IsPrefix(AllEntries(files), AllEntries(files'))
             /\ Len(AddedEntries) = 1
             /\ AddedEntries[1].type = "user_input"
             /\ AddedEntries[1].content = said'
             /\ chats' = <<>>
       /\ StreamAnswered =>
             /\ chats = <<>> /\ Len(chats') = 1
             /\ LastEntry(files).type = "user_input"
             /\ LastEntry(files).content = said
             /\ IsPrefix(AllEntries(files), AllEntries(files'))
             /\ IF ai_reply'.got
                THEN /\ Len(AddedEntries) = 1
                     /\ AddedEntries[1].type = "ai_response"
                     /\ AddedEntries[1].content = ai_reply'.text
                ELSE files' = files
       /\ (pc = "stream_call" /\ pc' # pc) => pc' = "warroom"
       /\ (pc \in {"warroom", "stream_call"} /\ ~StreamAnswered) =>
             \A i \in 1..Len(AddedEntries) :
                 AddedEntries[i].type # "ai_response"]_vars

\* the chat call of an ordinary input failed and the war room reads on
C27_Witness ==
    /\ pc = "warroom"
    /\ out = "stream_failed"
    /\ said = <<"x">>
    /\ Len(chats) = 1
    /\ LastEntry(files).type = "user_input"
    /\ LastEntry(files).content = <<"x">>

\* the step handles a /done command, in the war room or in the chat bridge
DoneStep ==
    /\ pc \in {"warroom", "bridge"}
    /\ pc' = pc
    /\ today' = today
    /\ out' \in {"done_usage", "done_recorded", "done_reply"}

\* C28: on both surfaces a /done command with a task name appends exactly
\* one entry, of type task_completion, and nothing else; without a task
\* name it appends nothing and reports the missing name instead of
\* acknowledging a record.
C28_DoneAppendsOneOrNone ==
    [][DoneStep =>
          /\ IsPrefix(AllEntries(files), AllEntries(files'))
          /\ IF DoneTaskName(said') # <<>>
             THEN /\ Len(AddedEntries) = 1
                  /\ AddedEntries[1].type = "task_completion"
             ELSE /\ AddedEntries = <<>>
                  /\ out' = "done_usage"]_vars

\* the task names of the /done commands recorded in a list of entries:
\* _process_done_command writes the name after DoneLogPrefix
RECURSIVE DoneNames(_)
DoneNames(logs) ==
    IF logs = <<>> THEN <<>>
    ELSE IF Head(logs).type = "task_completion"
    THEN <<DropFirst(Head(logs).content, Len(DoneLogPrefix))>>
             \o DoneNames(Tail(logs))
    ELSE DoneNames(Tail(logs))

\* C29: the completed-task list that the daily review passes to its prompt
\* is the sequence of the task names of today's /done commands since the
\* last clear, unchanged and in command order, with nothing from the
\* user_input and ai_response entries.
C29_DoneNamesReachReview ==
    [][pc = "review" =>
          rendered'.completed = DoneNames(GetTodayLogs(files, today))]_vars

\* on_handle_context has returned, or the plugin has been built
HandlerReturned == pc = "bridge"

====
